---- MODULE Spec2Model ----
(***************************************************************************)
(* docker-keeper (coq-community/docker-coq): the propagation strategy      *)
(* resolver get_propagate_strategy and the write-artifacts run around it,  *)
(* modelled from src/keeper.py and src/external/docker-keeper/             *)
(* bash_formatter.py.                                                      *)
(*                                                                         *)
(* Python values are modelled as follows.                                  *)
(*   str    a sequence of one-character strings, <<"d","e","v">>;          *)
(*          keywords the code compares against literals ('when', 'mode',   *)
(*          field names) are TLA+ strings                                  *)
(*   list   a sequence                                                     *)
(*   dict   a function whose DOMAIN is the set of keys; an ordered dict    *)
(*          whose order is observable is a sequence of entries             *)
(*   raise  the call ends with pc = "raised" and exc naming the exception  *)
(*                                                                         *)
(* Spec is a call of get_propagate_strategy on one target with every rule  *)
(* list of the inputs; SpecMain is a run of main_write_artifacts, from the *)
(* command line to the artifacts, on images.yml with two targets.          *)
(***************************************************************************)
EXTENDS Integers, Sequences, FiniteSets, TLC

(***************************************************************************)
(* Strings                                                                 *)
(***************************************************************************)

\* The printable ASCII characters but the double quote, the backslash and
\* the backquote, in code point order (Python compares strings by code point).
Chars ==
    << " ", "!", "#", "$", "%", "&", "'", "(", ")", "*", "+", ",", "-", ".", "/",
       "0", "1", "2", "3", "4", "5", "6", "7", "8", "9", ":", ";", "<", "=", ">", "?",
       "@", "A", "B", "C", "D", "E", "F", "G", "H", "I", "J", "K", "L", "M", "N", "O",
       "P", "Q", "R", "S", "T", "U", "V", "W", "X", "Y", "Z", "[", "]", "^", "_",
       "a", "b", "c", "d", "e", "f", "g", "h", "i", "j", "k", "l", "m", "n", "o",
       "p", "q", "r", "s", "t", "u", "v", "w", "x", "y", "z", "{", "|", "}", "~" >>

Ord(c) == CHOOSE i \in 1..Len(Chars) : Chars[i] = c

Range(s) == { s[n] : n \in 1..Len(s) }

RECURSIVE LexLess(_, _)
\* a < b for two Python str.
LexLess(a, b) ==
    IF b = <<>> THEN FALSE
    ELSE IF a = <<>> THEN TRUE
    ELSE IF a[1] = b[1] THEN LexLess(Tail(a), Tail(b))
    ELSE Ord(a[1]) < Ord(b[1])

\* (len(a), a) < (len(b), b)
LenLexLess(a, b) ==
    \/ Len(a) < Len(b)
    \/ Len(a) = Len(b) /\ LexLess(a, b)

RECURSIVE SortedLex(_)
\* sorted(S) of a set of str
SortedLex(S) ==
    IF S = {} THEN <<>>
    ELSE LET m == CHOOSE x \in S : \A y \in S \ {x} : LexLess(x, y)
         IN  <<m>> \o SortedLex(S \ {m})

RECURSIVE SortedLenLex(_)
\* sorted(S, key=(lambda s: (len(s), s))) of a set of str
SortedLenLex(S) ==
    IF S = {} THEN <<>>
    ELSE LET m == CHOOSE x \in S : \A y \in S \ {x} : LenLexLess(x, y)
         IN  <<m>> \o SortedLenLex(S \ {m})

uniqify(s) == SortedLex(Range(s))

\* uniqify_tags without its key: the tags in lexical order.
uniqify_tags_lexical(list_tags) == SortedLex(Range(list_tags))

uniqify_tags(list_tags) == SortedLenLex(Range(list_tags))

diff_list(l1, l2) == SelectSeq(l1, LAMBDA e : e \notin Range(l2))

meet_list(l1, l2) == SelectSeq(l1, LAMBDA e : e \in Range(l2))

subset_list(l1, l2) == diff_list(l1, l2) = <<>>

is_unique(s) == Len(s) = Cardinality(Range(s))

remove_spaces(text) == SelectSeq(text, LAMBDA c : c # " ")

RECURSIVE Split(_, _)
\* text.split(sep) for a one-character separator
Split(text, sep) ==
    IF sep \notin Range(text) THEN << text >>
    ELSE LET k == CHOOSE n \in 1..Len(text) :
                      /\ text[n] = sep
                      /\ \A m \in 1..(n - 1) : text[m] # sep
         IN  << SubSeq(text, 1, k - 1) >> \o Split(SubSeq(text, k + 1, Len(text)), sep)

trim_comma_split(text) ==
    SelectSeq(Split(remove_spaces(text), ","), LAMBDA e : e # <<>>)

RECURSIVE Chain(_)
\* list(chain(*lists))
Chain(lists) ==
    IF lists = <<>> THEN <<>> ELSE Head(lists) \o Chain(Tail(lists))

flat_map_trim_comma_split(lst) ==
    Chain([n \in 1..Len(lst) |-> trim_comma_split(lst[n])])

subset_comma_list(cstr1, cstr2) ==
    subset_list(trim_comma_split(cstr1), trim_comma_split(cstr2))

(***************************************************************************)
(* Dicts                                                                   *)
(***************************************************************************)

EmptyDict == [k \in {} |-> TRUE]

Has(d, k) == k \in DOMAIN d

\* d after d.pop(k)
Pop(d, k) == [f \in DOMAIN d \ {k} |-> d[f]]

\* d after d[k] = v
Put(d, k, v) == [f \in DOMAIN d \cup {k} |-> IF f = k THEN v ELSE d[f]]

\* ignore_fields(obj, lst): obj after obj.pop(field, None) for each field
ignore_fields(obj, lst) == [f \in DOMAIN obj \ lst |-> obj[f]]

(***************************************************************************)
(* bash_formatter.py: BashLike templates                                   *)
(*                                                                         *)
(* string.Formatter.parse splits a template into literal texts and field   *)
(* names; _string.formatter_field_name_split splits a field name into      *)
(* `first` and the access steps `rest`, each (is_attr, i).  A malformed     *)
(* template raises ValueError when the iteration reaches the malformed     *)
(* part, which `bad` marks.  The templates of the model have no conversion *)
(* ('!r') and no format specification (':>8').  A value is tagged with its *)
(* Python type.                                                            *)
(***************************************************************************)

Str(s)   == [t |-> "str",  v |-> s]
List(l)  == [t |-> "list", v |-> l]
Dict(d)  == [t |-> "dict", v |-> d]
None     == [t |-> "none", v |-> <<>>]

\* a result: the value, or the exception raised
Ok(x)     == [err |-> "", val |-> x]
Raise(e)  == [err |-> e, val |-> <<>>]

Lit(s) ==
    [literal_text |-> s, field |-> FALSE, first |-> <<>>, rest |-> <<>>, bad |-> FALSE]
Field(f, steps) ==
    [literal_text |-> <<>>, field |-> TRUE, first |-> f, rest |-> steps, bad |-> FALSE]
BadSeg ==
    [literal_text |-> <<>>, field |-> FALSE, first |-> <<>>, rest |-> <<>>, bad |-> TRUE]
Key(i)  == [is_attr |-> FALSE, i |-> i, bad |-> FALSE]
Attr(i) == [is_attr |-> TRUE, i |-> i, bad |-> FALSE]
BadStep == [is_attr |-> FALSE, i |-> <<>>, bad |-> TRUE]

\* The position of the first character of s that is in S, or 0.
IndexOf(s, S) ==
    IF \E n \in 1..Len(s) : s[n] \in S
    THEN CHOOSE n \in 1..Len(s) : s[n] \in S /\ \A m \in 1..(n - 1) : s[m] \notin S
    ELSE 0

RECURSIVE FieldRest(_)
\* '.name', name ending before position k of s (at its end when k = 0)
AttrStep(s, k) ==
    IF k = 1 \/ s = <<>> THEN << BadStep >>
    ELSE IF k = 0 THEN << Attr(s) >>
    ELSE << Attr(SubSeq(s, 1, k - 1)) >> \o FieldRest(SubSeq(s, k, Len(s)))

\* '[key]', the bracket closing at position k of s (missing when k = 0)
KeyStep(s, k) ==
    IF k < 2 THEN << BadStep >>
    ELSE << Key(SubSeq(s, 1, k - 1)) >> \o FieldRest(SubSeq(s, k + 1, Len(s)))

\* The steps of the rest of a field name.
FieldRest(s) ==
    IF s = <<>> THEN <<>>
    ELSE IF s[1] = "." THEN AttrStep(Tail(s), IndexOf(Tail(s), { ".", "[" }))
    ELSE IF s[1] = "[" THEN KeyStep(Tail(s), IndexOf(Tail(s), { "]" }))
    ELSE << BadStep >>

\* _string.formatter_field_name_split(name), its first step at position k
FieldOf(name, k) ==
    IF k = 0 THEN Field(name, <<>>)
    ELSE Field(SubSeq(name, 1, k - 1), FieldRest(SubSeq(name, k, Len(name))))

RECURSIVE parse(_)
\* '{name}', the brace closing at position k of s (missing when k = 0)
FieldSeg(s, k) ==
    IF k = 0 \/ "{" \in Range(SubSeq(s, 1, k - 1)) THEN << BadSeg >>
    ELSE << FieldOf(SubSeq(s, 1, k - 1), IndexOf(SubSeq(s, 1, k - 1), { ".", "[" })) >>
         \o parse(SubSeq(s, k + 1, Len(s)))

\* the literal text before position k of text (all of it when k = 0)
LitSeg(text, k) ==
    IF k = 0 THEN << Lit(text) >>
    ELSE << Lit(SubSeq(text, 1, k - 1)) >> \o parse(SubSeq(text, k, Len(text)))

\* Formatter.parse(text)
parse(text) ==
    IF text = <<>> THEN <<>>
    ELSE IF Len(text) >= 2 /\ text[1] \in { "{", "}" } /\ text[2] = text[1]
    THEN << Lit(<< text[1] >>) >> \o parse(SubSeq(text, 3, Len(text)))
    ELSE IF text[1] = "{" THEN FieldSeg(Tail(text), IndexOf(Tail(text), { "}" }))
    ELSE IF text[1] = "}" THEN << BadSeg >>
    ELSE LitSeg(text, IndexOf(text, { "{", "}" }))

Digits == << "0", "1", "2", "3", "4", "5", "6", "7", "8", "9" >>

IsDigits(s) == s # <<>> /\ \A n \in 1..Len(s) : s[n] \in Range(Digits)

RECURSIVE ToInt(_)
\* int(s) of a digit string
ToInt(s) ==
    IF s = <<>> THEN 0
    ELSE 10 * ToInt(SubSeq(s, 1, Len(s) - 1))
         + (CHOOSE d \in 0..9 : Digits[d + 1] = s[Len(s)])

reverse(text) == [n \in 1..Len(text) |-> text[Len(text) + 1 - n]]

RECURSIVE MatchLen(_, _, _)

\* The lengths k at which '*' can stop so that the rest of the glob matches.
StarStops(glob, s, greedy) ==
    { k \in 0..Len(s) : MatchLen(Tail(glob), SubSeq(s, k + 1, Len(s)), greedy) >= 0 }

\* FirstStop, but '.*?' stops where '.*' does.
FirstStopLongest(ks, greedy) == CHOOSE x \in ks : \A y \in ks : y <= x

\* FirstStop, but '.*' stops where '.*?' does.
FirstStopShortest(ks, greedy) == CHOOSE x \in ks : \A y \in ks : x <= y

\* The stop a backtracking regexp tries first among ks: the longest for
\* '.*', the shortest for '.*?'.
FirstStop(ks, greedy) ==
    IF greedy THEN CHOOSE x \in ks : \A y \in ks : y <= x
    ELSE CHOOSE x \in ks : \A y \in ks : x <= y

StarLen(glob, s, greedy, ks) ==
    IF ks = {} THEN -1
    ELSE FirstStop(ks, greedy)
         + MatchLen(Tail(glob), SubSeq(s, FirstStop(ks, greedy) + 1, Len(s)), greedy)

Succ(r) == IF r < 0 THEN -1 ELSE 1 + r

\* The length of the match of the regexp translate(glob, greedy) at the start
\* of s, or -1: the first match in the backtracking order of the regexp ('*'
\* is '.*' or '.*?', '?' is '.', any other character is itself).
MatchLen(glob, s, greedy) ==
    IF glob = <<>> THEN 0
    ELSE IF glob[1] = "*" THEN StarLen(glob, s, greedy, StarStops(glob, s, greedy))
    ELSE IF s = <<>> THEN -1
    ELSE IF glob[1] = "?" \/ glob[1] = s[1] THEN Succ(MatchLen(Tail(glob), Tail(s), greedy))
    ELSE -1

\* r without its first n characters, reversed; the reverse of r when n = -1
DropReversed(r, n) == IF n < 0 THEN reverse(r) ELSE reverse(SubSeq(r, n + 1, Len(r)))

\* reverse(re.sub(translate_prefix(reverse(suffix), greedy), '', reverse(obj), count=1))
StripSuffix(obj, suffix, greedy) ==
    DropReversed(reverse(obj), MatchLen(reverse(suffix), reverse(obj), greedy))

\* The positions from pos on where translate(glob, True) matches in obj.
MatchStarts(glob, obj, pos) ==
    { b \in pos..Len(obj) : MatchLen(glob, SubSeq(obj, b + 1, Len(obj)), TRUE) >= 0 }

Least(S) == CHOOSE x \in S : \A y \in S : x <= y

RECURSIVE SubAll(_, _, _, _)
\* The replacement of the match of length n found at b, then of the later ones.
SubFrom(glob, dest, obj, pos, b, n) ==
    SubSeq(obj, pos + 1, b) \o dest \o
    (IF n > 0 THEN SubAll(glob, dest, obj, b + n)
     ELSE IF b < Len(obj) THEN << obj[b + 1] >> \o SubAll(glob, dest, obj, b + 1)
     ELSE <<>>)

SubAt(glob, dest, obj, pos, b) ==
    SubFrom(glob, dest, obj, pos, b, MatchLen(glob, SubSeq(obj, b + 1, Len(obj)), TRUE))

SubNext(glob, dest, obj, pos, starts) ==
    IF starts = {} THEN SubSeq(obj, pos + 1, Len(obj))
    ELSE SubAt(glob, dest, obj, pos, Least(starts))

\* re.sub(translate(glob, True), dest, obj[pos:], count=0), dest a literal
SubAll(glob, dest, obj, pos) ==
    SubNext(glob, dest, obj, pos, MatchStarts(glob, obj, pos))

\* obj[a:b] of a str or a list
Slice(v, a, b) ==
    LET hi == IF b < Len(v) THEN b ELSE Len(v)
    IN  IF a < hi THEN SubSeq(v, a + 1, hi) ELSE <<>>

\* re.match('^([0-9]+):([0-9]+)$', i)
IsSliceStep(i) ==
    \E k \in 1..Len(i) :
        /\ i[k] = ":"
        /\ IsDigits(SubSeq(i, 1, k - 1))
        /\ IsDigits(SubSeq(i, k + 1, Len(i)))

SliceColon(i) == CHOOSE k \in 1..Len(i) : i[k] = ":"

\* re.match('^%%(.+)$', i)
IsSuffixGreedyStep(i) == Len(i) >= 3 /\ i[1] = "%" /\ i[2] = "%"

\* re.match('^%(.+)$', i)
IsSuffixStep(i) == Len(i) >= 2 /\ i[1] = "%"

\* re.match('^//([^/]+)/(.*)$', i)
IsSedStep(i) ==
    /\ Len(i) >= 4 /\ i[1] = "/" /\ i[2] = "/" /\ i[3] # "/"
    /\ \E k \in 4..Len(i) : i[k] = "/"

SedSlash(i) == CHOOSE k \in 4..Len(i) : i[k] = "/" /\ \A m \in 3..(k - 1) : i[m] # "/"

\* obj[i] for a str key i
GetItem(obj, i) ==
    IF obj.t = "dict"
    THEN IF \E n \in 1..Len(obj.v) : obj.v[n][1] = i
         THEN LET n == CHOOSE n \in 1..Len(obj.v) : obj.v[n][1] = i
              IN  Ok(Str(obj.v[n][2]))
         ELSE Raise("KeyError")
    ELSE Raise("TypeError")

\* obj[a:b], the step being 'a:b' with its colon at k
SliceStep(obj, i, k) ==
    IF obj.t \in { "str", "list" }
    THEN Ok([t |-> obj.t,
             v |-> Slice(obj.v, ToInt(SubSeq(i, 1, k - 1)), ToInt(SubSeq(i, k + 1, Len(i))))])
    ELSE Raise("TypeError")

SuffixStep(obj, suffix, greedy) ==
    IF obj.t = "str" THEN Ok(Str(StripSuffix(obj.v, suffix, greedy)))
    ELSE Raise("TypeError")

\* the step being '//glob/dest' with its last slash at k
SedStep(obj, i, k) ==
    IF obj.t = "str"
    THEN Ok(Str(SubAll(SubSeq(i, 3, k - 1), SubSeq(i, k + 1, Len(i)), obj.v, 0)))
    ELSE Raise("TypeError")

\* One access step of BashLike.get_field on the current value.
FieldStep(obj, step) ==
    IF step.bad THEN Raise("ValueError")
    ELSE IF step.is_attr THEN
        IF step.i # <<>> /\ step.i[1] = "_" THEN Ok(Str(<<>>))
        ELSE Raise("AttributeError")
    ELSE IF IsDigits(step.i) THEN Raise("TypeError")
    ELSE IF IsSliceStep(step.i) THEN SliceStep(obj, step.i, SliceColon(step.i))
    ELSE IF IsSuffixGreedyStep(step.i)
    THEN SuffixStep(obj, SubSeq(step.i, 3, Len(step.i)), TRUE)
    ELSE IF IsSuffixStep(step.i)
    THEN SuffixStep(obj, SubSeq(step.i, 2, Len(step.i)), FALSE)
    ELSE IF IsSedStep(step.i) THEN SedStep(obj, step.i, SedSlash(step.i))
    ELSE GetItem(obj, step.i)

RECURSIVE FieldSteps(_, _)
FieldSteps(res, rest) ==
    IF res.err # "" \/ rest = <<>> THEN res
    ELSE FieldSteps(FieldStep(res.val, Head(rest)), Tail(rest))

\* BashLike.get_field(field_name, args, kwargs); kwargs is a dict of values
\* and args is empty
get_field(first, rest, kwargs) ==
    IF first = <<>> \/ IsDigits(first) THEN Raise("IndexError")
    ELSE IF first \notin DOMAIN kwargs THEN Raise("KeyError")
    ELSE FieldSteps(Ok(kwargs[first]), rest)

RECURSIVE JoinQuoted(_)
\* ", ".join(map(repr, l)) for a list of str without quotes
JoinQuoted(l) ==
    IF l = <<>> THEN <<>>
    ELSE << "'" >> \o Head(l) \o << "'" >>
         \o (IF Len(l) > 1 THEN << ",", " " >> ELSE <<>>) \o JoinQuoted(Tail(l))

RECURSIVE JoinItems(_)
\* ", ".join("%r: %r" % kv for kv in d.items())
JoinItems(d) ==
    IF d = <<>> THEN <<>>
    ELSE << "'" >> \o Head(d)[1] \o << "'", ":", " ", "'" >> \o Head(d)[2] \o << "'" >>
         \o (IF Len(d) > 1 THEN << ",", " " >> ELSE <<>>) \o JoinItems(Tail(d))

\* format(obj, ''): str(obj)
ToStr(obj) ==
    CASE obj.t = "str"  -> obj.v
      [] obj.t = "list" -> << "[" >> \o JoinQuoted(obj.v) \o << "]" >>
      [] obj.t = "dict" -> << "{" >> \o JoinItems(obj.v) \o << "}" >>
      [] OTHER          -> << "N", "o", "n", "e" >>

\* the text of one (literal_text, field_name) pair, fld being its field's value
SegText(seg, fld) ==
    IF fld.err # "" THEN fld
    ELSE Ok(seg.literal_text \o (IF seg.field THEN ToStr(fld.val) ELSE <<>>))

Cat(a, b) ==
    IF a.err # "" THEN a
    ELSE IF b.err # "" THEN b
    ELSE Ok(a.val \o b.val)

\* the value of the field of one part of a template
SegField(seg, kwargs) ==
    IF seg.bad THEN Raise("ValueError")
    ELSE IF seg.field THEN get_field(seg.first, seg.rest, kwargs)
    ELSE Ok(Str(<<>>))

RECURSIVE vformat(_, _)
\* Formatter.vformat over the parts of a template
vformat(parts, kwargs) ==
    IF parts = <<>> THEN Ok(<<>>)
    ELSE Cat(SegText(Head(parts), SegField(Head(parts), kwargs)),
             vformat(Tail(parts), kwargs))

\* BashLike().format(template, **kwargs)
Format(template, kwargs) == vformat(parse(template), kwargs)

kw_matrix   == << "m", "a", "t", "r", "i", "x" >>
kw_tags     == << "t", "a", "g", "s" >>
kw_keywords == << "k", "e", "y", "w", "o", "r", "d", "s" >>
kw_vars     == << "v", "a", "r", "s" >>
kw_defaults == << "d", "e", "f", "a", "u", "l", "t", "s" >>

\* eval_bashlike2(expr, matrix, tags, keywords)
eval_bashlike2(expr, matrix, tags, keywords) ==
    Format(expr, (kw_matrix :> Dict(matrix)) @@ (kw_tags :> List(tags))
                 @@ (kw_keywords :> List(keywords)))

\* eval_propagate(expr, build_elt)
eval_propagate(expr, build_elt) ==
    eval_bashlike2(expr, build_elt.matrix, build_elt.tags, build_elt.keywords)

\* The first exception among the results, else the list of their values.
Collect(results) ==
    IF \E n \in 1..Len(results) : results[n].err # ""
    THEN Raise(results[CHOOSE n \in 1..Len(results) :
                           /\ results[n].err # ""
                           /\ \A m \in 1..(n - 1) : results[m].err = ""].err)
    ELSE Ok([n \in 1..Len(results) |-> results[n].val])

UniqCat(list_str) ==
    IF list_str.err # "" THEN list_str
    ELSE Ok(uniqify_tags(flat_map_trim_comma_split(list_str.val)))

\* uniq_cat_eval_propagate(expr, build_data)
uniq_cat_eval_propagate(expr, build_data) ==
    UniqCat(Collect([n \in 1..Len(build_data) |-> eval_propagate(expr, build_data[n])]))

(***************************************************************************)
(* keeper.py: checks                                                       *)
(***************************************************************************)

Lowercase == { "a", "b", "c", "d", "e", "f", "g", "h", "i", "j", "k", "l", "m",
               "n", "o", "p", "q", "r", "s", "t", "u", "v", "w", "x", "y", "z" }

Uppercase == { "A", "B", "C", "D", "E", "F", "G", "H", "I", "J", "K", "L", "M",
               "N", "O", "P", "Q", "R", "S", "T", "U", "V", "W", "X", "Y", "Z" }

\* re.match(r'^[a-zA-Z_]+[a-zA-Z0-9_]*$', api_token_env_var)
IsEnvVarName(text) ==
    /\ text # <<>>
    /\ text[1] \in Lowercase \cup Uppercase \cup { "_" }
    /\ \A n \in 1..Len(text) :
           text[n] \in Lowercase \cup Uppercase \cup Range(Digits) \cup { "_" }

\* [a-z0-9]+(-[a-z0-9]+)*
IsDomainLabel(label) ==
    LET parts == Split(label, "-")
    IN  \A n \in 1..Len(parts) :
            /\ parts[n] # <<>>
            /\ \A m \in 1..Len(parts[n]) : parts[n][m] \in Lowercase \cup Range(Digits)

\* check_domain(text) passes:
\* re.match(r'^[a-z0-9]+(-[a-z0-9]+)*(\.[a-z0-9]+(-[a-z0-9]+)*)+$', text)
IsDomain(text) ==
    LET labels == Split(text, ".")
    IN  Len(labels) >= 2 /\ \A n \in 1..Len(labels) : IsDomainLabel(labels[n])

OutputModes == { "nil", "minimal", "nightly", "rebuild-keyword", "rebuild-all" }

ManualModes == { "minimal", "nightly", "rebuild-keyword", "rebuild-all" }

\* check_output_mode, but it returns for every mode.
check_output_mode_any(mode) == TRUE

\* check_output_mode(mode) returns (does not raise Error)
check_output_mode(mode) == mode \in OutputModes

\* check_manual_mode(mode) returns (does not raise Error)
check_manual_mode(mode) == mode \in ManualModes

(***************************************************************************)
(* keeper.py: the compilation of images.yml into build items               *)
(*                                                                         *)
(* An ordered dict of strings (a matrix, args) is a sequence of            *)
(* <<key, value>> pairs.  An image and its 'build' are dicts.              *)
(***************************************************************************)

\* d after d[k] = v for an ordered dict
PutPair(d, k, v) ==
    IF \E n \in 1..Len(d) : d[n][1] = k
    THEN [n \in 1..Len(d) |-> IF d[n][1] = k THEN << k, v >> ELSE d[n]]
    ELSE Append(d, << k, v >>)

RECURSIVE merge_dict(_, _)
\* merge_dict(a, b)
merge_dict(a, b) ==
    IF b = <<>> THEN a
    ELSE merge_dict(PutPair(a, Head(b)[1], Head(b)[2]), Tail(b))

\* Lines 282-288 without the copy of line 284: the assignments of old are
\* changed in place, so that all end with the last value of the axis.
ExtendShallow(old, key, values) ==
    [n \in 1..(Len(values) * Len(old)) |->
        PutPair(old[((n - 1) % Len(old)) + 1], key, values[Len(values)])]

\* One round of "for key in matrix" (lines 282-288): res after the round.
Extend(old, key, values) ==
    [n \in 1..(Len(values) * Len(old)) |->
        PutPair(old[((n - 1) % Len(old)) + 1], key, values[((n - 1) \div Len(old)) + 1])]

RECURSIVE Product(_, _)
Product(matrix, old) ==
    IF matrix = <<>> THEN old
    ELSE Product(Tail(matrix), Extend(old, Head(matrix)[1], Head(matrix)[2]))

\* product_build_matrix(matrix)
product_build_matrix(matrix) ==
    IF matrix = <<>> THEN Raise("AssertionError")
    ELSE Ok(Product(matrix, << <<>> >>))

\* check_trim_relative_path(path) of a str
check_trim_relative_path(path) ==
    IF path = <<>> THEN Raise("IndexError")
    ELSE IF path[1] = "/" THEN Raise("Error")
    ELSE IF Len(path) >= 2 /\ path[1] = "." /\ path[2] = "/"
    THEN Ok(SubSeq(path, 3, Len(path)))
    ELSE Ok(path)

\* text.find(sub) > -1 for a two-character sub
Find2(text, sub) ==
    \E n \in 1..(Len(text) - 1) : text[n] = sub[1] /\ text[n + 1] = sub[2]

RECURSIVE Split2(_, _)
\* text.split(sub) for a two-character sub
Split2(text, sub) ==
    IF ~ Find2(text, sub) THEN << text >>
    ELSE LET k == CHOOSE n \in 1..(Len(text) - 1) :
                      /\ text[n] = sub[1] /\ text[n + 1] = sub[2]
                      /\ \A m \in 1..(n - 1) : ~ (text[m] = sub[1] /\ text[m + 1] = sub[2])
         IN  << SubSeq(text, 1, k - 1) >> \o Split2(SubSeq(text, k + 2, Len(text)), sub)

RECURSIVE strip(_)
\* text.strip(), the space being the only whitespace of the model
strip(text) ==
    IF text = <<>> THEN text
    ELSE IF Head(text) = " " THEN strip(Tail(text))
    ELSE IF text[Len(text)] = " " THEN strip(SubSeq(text, 1, Len(text) - 1))
    ELSE text

\* text.strip().replace('"', '')
Operand(text) == SelectSeq(strip(text), LAMBDA c : c # "\"")

\* eval_bashlike(template, matrix, gvars, defaults); defaults is a tagged value
eval_bashlike(template, matrix, gvars, defaults) ==
    Format(template, (kw_matrix :> Dict(matrix)) @@ (kw_vars :> Dict(gvars))
                     @@ (kw_defaults :> defaults))

\* Compare, but '!=' answers as '==' does.
CompareEqualOnly(a, b, equality) ==
    IF a.err # "" THEN a
    ELSE IF b.err # "" THEN b
    ELSE Ok(a.val = b.val)

\* Lines 341-344: a and b are the two sides, evaluated.
Compare(a, b, equality) ==
    IF a.err # "" THEN a
    ELSE IF b.err # "" THEN b
    ELSE Ok((a.val = b.val) = equality)

\* CompareArgs, but the operands after the second are dropped.
CompareArgsFirstTwo(args, matrix, gvars, equality) ==
    IF Len(args) < 2 THEN Raise("Error")
    ELSE Compare(eval_bashlike(Operand(args[1]), matrix, gvars, None),
                 eval_bashlike(Operand(args[2]), matrix, gvars, None), equality)

\* Lines 337-344.
CompareArgs(args, matrix, gvars, equality) ==
    IF Len(args) # 2 THEN Raise("Error")
    ELSE Compare(eval_bashlike(Operand(args[1]), matrix, gvars, None),
                 eval_bashlike(Operand(args[2]), matrix, gvars, None), equality)

\* eval_if of a condition that is a str
eval_if_str(raw_condition, matrix, gvars) ==
    IF Find2(raw_condition, << "=", "=" >>)
    THEN CompareArgs(Split2(raw_condition, << "=", "=" >>), matrix, gvars, TRUE)
    ELSE IF Find2(raw_condition, << "!", "=" >>)
    THEN CompareArgs(Split2(raw_condition, << "!", "=" >>), matrix, gvars, FALSE)
    ELSE Raise("Error")

RECURSIVE eval_if(_, _, _)
\* Lines 320-324: e is the value of the first condition of the list.
Conj(e, others, matrix, gvars) ==
    IF e.err # "" THEN e
    ELSE IF ~ e.val THEN Ok(FALSE)
    ELSE eval_if(List(others), matrix, gvars)

\* eval_if(raw_condition, matrix, gvars); raw_condition is a tagged value
eval_if(raw_condition, matrix, gvars) ==
    IF raw_condition.t = "list" THEN
        IF raw_condition.v = <<>> THEN Ok(TRUE)
        ELSE Conj(eval_if(Head(raw_condition.v), matrix, gvars), Tail(raw_condition.v),
                  matrix, gvars)
    ELSE IF raw_condition.t = "none" THEN Ok(TRUE)
    ELSE IF raw_condition.t # "str" THEN Raise("Error")
    ELSE eval_if_str(raw_condition.v, matrix, gvars)

kw_build_date == << "b", "u", "i", "l", "d", "_", "d", "a", "t", "e" >>
kw_commit     == << "c", "o", "m", "m", "i", "t" >>
s_Dockerfile  == << "D", "o", "c", "k", "e", "r", "f", "i", "l", "e" >>

\* the list of the values, or the first exception; a list when cond holds
Singleton(cond, value) ==
    IF cond.err # "" THEN cond
    ELSE IF ~ cond.val THEN Ok(<<>>)
    ELSE IF value.err # "" THEN value
    ELSE Ok(<< value.val >>)

\* Lines 412-418 with a defaults bundle given to eval_bashlike at line 417,
\* that of a build at the instant 'T1'.
TagOfDated(tag_item, matrix, gvars) ==
    IF ~ Has(tag_item, "tag") THEN Raise("KeyError")
    ELSE Singleton(eval_if(IF Has(tag_item, "if") THEN tag_item["if"] ELSE None,
                           matrix, gvars),
                   eval_bashlike(tag_item["tag"], matrix, gvars,
                                 Dict(<< << kw_build_date, << "T", "1" >> >> >>)))

\* Lines 412-418 without the test of line 415: the condition is not looked at.
TagOfAlways(tag_item, matrix, gvars) ==
    IF ~ Has(tag_item, "tag") THEN Raise("KeyError")
    ELSE Singleton(Ok(TRUE), eval_bashlike(tag_item["tag"], matrix, gvars, None))

\* Lines 412-418: the tag of one entry of build.tags, if its condition holds.
TagOf(tag_item, matrix, gvars) ==
    IF ~ Has(tag_item, "tag") THEN Raise("KeyError")
    ELSE Singleton(eval_if(IF Has(tag_item, "if") THEN tag_item["if"] ELSE None,
                           matrix, gvars),
                   eval_bashlike(tag_item["tag"], matrix, gvars, None))

\* the concatenation of the lists, or the first exception
Concat(results) ==
    IF results.err # "" THEN results ELSE Ok(Chain(results.val))

\* Lines 410-418.
TagsOf(raw_tags, matrix, gvars) ==
    Concat(Collect([n \in 1..Len(raw_tags) |-> TagOf(raw_tags[n], matrix, gvars)]))

\* Lines 419-422: env is what the clock and the commit API answer.
DefaultsOf(build, env) ==
    Dict(IF Has(build, "commit_api")
         THEN << << kw_build_date, env.build_date >>, << kw_commit, env.commit >> >>
         ELSE << << kw_build_date, env.build_date >> >>)

\* one entry of an ordered dict with its template evaluated
PairOf(key, value) ==
    IF value.err # "" THEN value ELSE Ok(<< key, value.val >>)

\* Lines 423-427.
ArgsOf(raw_args, matrix, gvars, defaults) ==
    Collect([n \in 1..Len(raw_args) |->
                PairOf(raw_args[n][1],
                       eval_bashlike(raw_args[n][2], matrix, gvars, defaults))])

\* Lines 428-430.
KeywordsOf(raw_keywords, matrix, gvars, defaults) ==
    Collect([n \in 1..Len(raw_keywords) |->
                eval_bashlike(raw_keywords[n], matrix, gvars, defaults)])

\* "export %s='%s'" % (var, var_value)
ExportLine(var, value) ==
    IF value.err # "" THEN value
    ELSE Ok(<< "e", "x", "p", "o", "r", "t", " " >> \o var \o << "=", "'" >>
            \o value.val \o << "'" >>)

\* Lines 432-440.
ExportOf(raw_after_deploy_export, matrix, gvars, defaults) ==
    Collect([n \in 1..Len(raw_after_deploy_export) |->
                ExportLine(raw_after_deploy_export[n][1],
                           eval_bashlike(raw_after_deploy_export[n][2], matrix, gvars,
                                         defaults))])

\* Lines 448-456 with the text of 'run' expanded as a tag template is.
ScriptItemExpanded(ad_item, matrix, gvars) ==
    IF ad_item.t = "str" THEN Ok(<< ad_item.v >>)
    ELSE IF ~ Has(ad_item.v, "run") THEN Raise("KeyError")
    ELSE Singleton(eval_if(IF Has(ad_item.v, "if") THEN ad_item.v["if"] ELSE None,
                           matrix, gvars),
                   eval_bashlike(ad_item.v["run"], matrix, gvars, None))

\* Lines 448-456: the script lines one entry of after_deploy contributes.
ScriptItem(ad_item, matrix, gvars) ==
    IF ad_item.t = "str" THEN Ok(<< ad_item.v >>)
    ELSE IF ~ Has(ad_item.v, "run") THEN Raise("KeyError")
    ELSE Singleton(eval_if(IF Has(ad_item.v, "if") THEN ad_item.v["if"] ELSE None,
                           matrix, gvars),
                   Ok(ad_item.v["run"]))

\* Lines 442-456 without the test of line 442: the export commands come
\* first whether there are script entries or not.
ScriptOfExportsAlways(raw_after_deploy, export, matrix, gvars) ==
    Cat(export,
        Concat(Collect([n \in 1..Len(raw_after_deploy) |->
                           ScriptItem(raw_after_deploy[n], matrix, gvars)])))

\* Lines 442-456: export is the list of the export commands.
ScriptOf(raw_after_deploy, export, matrix, gvars) ==
    IF raw_after_deploy = <<>> THEN Ok(<<>>)
    ELSE Cat(export,
             Concat(Collect([n \in 1..Len(raw_after_deploy) |->
                                ScriptItem(raw_after_deploy[n], matrix, gvars)])))

\* Lines 457-462: the build item, or the first exception its parts raised.
NewItem(context, dfile, matrix, tags, args, keywords, export, after_deploy_script) ==
    IF tags.err # "" THEN tags
    ELSE IF args.err # "" THEN args
    ELSE IF keywords.err # "" THEN keywords
    ELSE IF export.err # "" THEN export
    ELSE IF after_deploy_script.err # "" THEN after_deploy_script
    ELSE Ok([context |-> context, dockerfile |-> dfile,
             path |-> context \o << "/" >> \o dfile,
             matrix |-> matrix, tags |-> tags.val, args |-> args.val,
             keywords |-> keywords.val,
             after_deploy_script |-> after_deploy_script.val])

\* Lines 442-456 after lines 432-440.
Scripted(context, dfile, matrix, tags, args, keywords, export, raw_after_deploy, gvars) ==
    NewItem(context, dfile, matrix, tags, args, keywords, export,
            ScriptOf(raw_after_deploy, export, matrix, gvars))

\* Lines 410-462: one iteration of "for matrix in list_matrix".
CompileItem(build, context, dfile, matrix, raw_args, gvars, defaults) ==
    Scripted(context, dfile, matrix,
             TagsOf(build["tags"], matrix, gvars),
             ArgsOf(raw_args, matrix, gvars, defaults),
             KeywordsOf(IF Has(build, "keywords") THEN build["keywords"] ELSE <<>>,
                        matrix, gvars, defaults),
             ExportOf(IF Has(build, "after_deploy_export")
                      THEN build["after_deploy_export"] ELSE <<>>,
                      matrix, gvars, defaults),
             IF ~ Has(build, "after_deploy") THEN <<>>
             ELSE IF build["after_deploy"].t = "str" THEN << build["after_deploy"] >>
             ELSE build["after_deploy"].v,
             gvars)

\* Lines 376-462: context is the context checked and trimmed.
CompileContext(build, list_matrix, args1, gvars, envs, dfile, context) ==
    IF context.err # "" THEN context
    ELSE IF ~ Has(build, "tags") THEN Raise("KeyError")
    ELSE Collect([n \in 1..Len(list_matrix) |->
                     CompileItem(build, context.val, dfile, list_matrix[n],
                                 merge_dict(args1,
                                            IF Has(build, "args") THEN build["args"]
                                            ELSE <<>>),
                                 gvars, DefaultsOf(build, envs[n]))])

\* Lines 372-462: dfile is the Dockerfile name checked and trimmed.
CompileBuild(build, list_matrix, args1, gvars, envs, dfile) ==
    IF dfile.err # "" THEN dfile
    ELSE IF ~ Has(build, "context") THEN Raise("KeyError")
    ELSE CompileContext(build, list_matrix, args1, gvars, envs, dfile.val,
                        check_trim_relative_path(build["context"]))

\* Lines 372-462: list_matrix is what product_build_matrix has returned.
CompileMatrix(item, list_matrix, args1, gvars, envs) ==
    IF list_matrix.err # "" THEN list_matrix
    ELSE IF ~ Has(item, "build") THEN Raise("KeyError")
    ELSE CompileBuild(item["build"], list_matrix.val, args1, gvars, envs,
                      IF Has(item["build"], "dockerfile")
                      THEN check_trim_relative_path(item["build"]["dockerfile"])
                      ELSE Ok(s_Dockerfile))

\* Lines 371-462: one iteration of "for item in images"; envs[n] is what the
\* clock and the commit API answer for the n-th matrix assignment.
CompileImage(item, args1, gvars, envs) ==
    IF ~ Has(item, "matrix") THEN Raise("KeyError")
    ELSE CompileMatrix(item, product_build_matrix(item["matrix"]), args1, gvars, envs)

RECURSIVE CompileImages(_, _, _, _)
\* The items of the first image, then those of the others.
CompileRest(first, images, args1, gvars, envs) ==
    IF first.err # "" THEN first
    ELSE Cat(first, CompileImages(images, args1, gvars,
                                  SubSeq(envs, Len(first.val) + 1, Len(envs))))

\* Lines 370-462: "for item in images".
CompileImages(images, args1, gvars, envs) ==
    IF images = <<>> THEN Ok(<<>>)
    ELSE CompileRest(CompileImage(Head(images), args1, gvars, envs), Tail(images),
                     args1, gvars, envs)

\* get_list_dict_dockerfile_matrix_tags_args(json, debug)
get_list_dict_dockerfile_matrix_tags_args(json, envs) ==
    IF ~ Has(json, "images") THEN Raise("KeyError")
    ELSE CompileImages(json["images"],
                       IF Has(json, "args") THEN json["args"] ELSE <<>>,
                       IF Has(json, "vars") THEN json["vars"] ELSE <<>>, envs)

\* The number of build items of a list of images: one per matrix assignment.
RECURSIVE Count(_)
Count(images) ==
    IF images = <<>> THEN 0
    ELSE Len(Product(Head(images)["matrix"], << <<>> >>)) + Count(Tail(images))

(***************************************************************************)
(* keeper.py: get_propagate_strategy, the evaluation of one rule           *)
(***************************************************************************)

\* An exception: its type, the target its message names ('' when it names
\* none) and the check that raised it.
NoExc == [type |-> "", slug |-> <<>>, what |-> ""]

Exc(type, slug, what) == [type |-> type, slug |-> slug, what |-> what]

\* The outcome of one iteration of "for elt in strat": the exception raised
\* if any, whether the loop breaks, res_strat and the rule as it leaves them.
Outcome(e, brk, res_strat, elt) ==
    [exc |-> e, brk |-> brk, res_strat |-> res_strat, elt |-> elt]

\* The end of a matching rule without its break: the loop goes on.
CheckedNoBreak(elt, res_strat) ==
    IF DOMAIN elt # {}
    THEN Outcome(Exc("SystemExit", <<>>, "strategy"), FALSE, res_strat, elt)
    ELSE Outcome(NoExc, FALSE, res_strat, elt)

\* check_no_fields('strategy', elt), then break
CheckedBreak(elt, res_strat) ==
    IF DOMAIN elt # {}
    THEN Outcome(Exc("SystemExit", <<>>, "strategy"), FALSE, res_strat, elt)
    ELSE Outcome(NoExc, TRUE, res_strat, elt)

\* Lines 929-931: kws is the keyword list of the rule's item.
SetItem(elt, res_strat, kws) ==
    IF kws.err # ""
    THEN Outcome(Exc(kws.err, <<>>, "item"), FALSE, res_strat, elt)
    ELSE CheckedBreak(elt, Put(res_strat, "item", kws.val))

\* The block "idem" (lines 926-935 and its four copies) of a rule that
\* matches: the rule's mode and interpolated item are moved to res_strat,
\* the rule must have no field left, and the loop breaks.
Match(elt, res_strat, build_data) ==
    IF ~ Has(elt, "mode")
    THEN Outcome(Exc("KeyError", <<>>, "mode"), FALSE, res_strat, elt)
    ELSE IF elt["mode"] = "rebuild-keyword" THEN
        IF ~ Has(elt, "item")
        THEN Outcome(Exc("KeyError", <<>>, "item"), FALSE,
                     Put(res_strat, "mode", elt["mode"]), Pop(elt, "mode"))
        ELSE SetItem(Pop(Pop(elt, "mode"), "item"), Put(res_strat, "mode", elt["mode"]),
                     uniq_cat_eval_propagate(elt["item"], build_data))
    ELSE IF ~ check_output_mode(elt["mode"])
    THEN Outcome(Exc("Error", <<>>, "mode"), FALSE,
                 Put(res_strat, "mode", elt["mode"]), Pop(elt, "mode"))
    ELSE CheckedBreak(Pop(elt, "mode"), Put(res_strat, "mode", elt["mode"]))

\* A rule that does not match: the loop goes on with the next rule.
NoMatch(elt, res_strat) == Outcome(NoExc, FALSE, res_strat, elt)

\* One build item of the loops of lines 956-961 (forall) and 982-987
\* (exists): the exception an expansion raises, the value that ends the
\* loop, or what the rest of the loop yields.
ScanItem(e_expr, e_subset, forall, rest) ==
    IF e_expr.err # "" THEN e_expr.err
    ELSE IF e_subset.err # "" THEN e_subset.err
    ELSE IF subset_comma_list(e_expr.val, e_subset.val) = forall THEN rest
    ELSE IF forall THEN "F" ELSE "T"

RECURSIVE Scan(_, _, _, _)
\* The value of acc after the loop, "T" or "F", or the exception raised.
Scan(expr, subset, build_data, forall) ==
    IF build_data = <<>> THEN (IF forall THEN "T" ELSE "F")
    ELSE ScanItem(eval_propagate(expr, Head(build_data)),
                  eval_propagate(subset, Head(build_data)),
                  forall, Scan(expr, subset, Tail(build_data), forall))

\* The loop of lines 956-961 ended after its first build item.
ForallFirst(expr, subset, build_data) ==
    IF build_data = <<>> THEN "T"
    ELSE Scan(expr, subset, << Head(build_data) >>, TRUE)

\* Lines 953-961.
ForallScan(expr, subset, build_data) == Scan(expr, subset, build_data, TRUE)

\* The loop of lines 982-987 with the initial value and the test of the
\* loop of lines 956-961.
ExistsAsForall(expr, subset, build_data) == Scan(expr, subset, build_data, TRUE)

\* Lines 979-987.
ExistsScan(expr, subset, build_data) == Scan(expr, subset, build_data, FALSE)

\* Lines 962-977 and 988-1003: acc is the outcome of the loop.
Quantified(elt, res_strat, build_data, acc) ==
    IF acc = "T" THEN Match(elt, res_strat, build_data)
    ELSE IF acc = "F"
    THEN IF DOMAIN ignore_fields(elt, { "mode", "item" }) # {}
         THEN Outcome(Exc("SystemExit", <<>>, "strategy"), FALSE, res_strat,
                      ignore_fields(elt, { "mode", "item" }))
         ELSE NoMatch(ignore_fields(elt, { "mode", "item" }), res_strat)
    ELSE Outcome(Exc(acc, <<>>, "expr"), FALSE, res_strat, elt)

\* 'nightly' in triggered and triggered['nightly']
NightlyFired(triggered) == Has(triggered, "nightly") /\ triggered["nightly"]

\* 'rebuild_all' in triggered and triggered['rebuild_all']
RebuildAllFired(triggered) == Has(triggered, "rebuild_all") /\ triggered["rebuild_all"]

\* Lines 924 and 938: a rule the event decides.
Triggered(elt, res_strat, build_data, fired) ==
    IF fired THEN Match(elt, res_strat, build_data) ELSE NoMatch(elt, res_strat)

\* Lines 954-955 and 980-981, then the loop: expr and subset are popped.
Quantifier(elt, res_strat, build_data, forall) ==
    IF ~ Has(elt, "expr")
    THEN Outcome(Exc("KeyError", <<>>, "expr"), FALSE, res_strat, elt)
    ELSE IF ~ Has(elt, "subset")
    THEN Outcome(Exc("KeyError", <<>>, "subset"), FALSE, res_strat, Pop(elt, "expr"))
    ELSE Quantified(Pop(Pop(elt, "expr"), "subset"), res_strat, build_data,
                    IF forall THEN ForallScan(elt["expr"], elt["subset"], build_data)
                    ELSE ExistsScan(elt["expr"], elt["subset"], build_data))

\* Lines 921-1006: a rule with a 'when', popped from it.
When(when, elt, res_strat, triggered, build_data) ==
    CASE when = "nightly" ->
            Triggered(elt, res_strat, build_data, NightlyFired(triggered))
      [] when = "rebuild-all" ->
            Triggered(elt, res_strat, build_data, RebuildAllFired(triggered))
      [] when \in { "forall", "exists" } ->
            Quantifier(elt, res_strat, build_data, when = "forall")
      [] OTHER ->
            \* the message is built from elt['when'], which was popped
            Outcome(Exc("KeyError", <<>>, "when"), FALSE, res_strat, elt)

\* One iteration of the loop "for elt in strat" (lines 919-1019).
EvalElt(elt, res_strat, triggered, build_data) ==
    IF Has(elt, "when")
    THEN When(elt["when"], Pop(elt, "when"), res_strat, triggered, build_data)
    ELSE Match(elt, res_strat, build_data)

(***************************************************************************)
(* keeper.py: get_propagate_strategy, the state of a call                  *)
(***************************************************************************)

VARIABLES
    prop,                \* spec['propagate']: the targets in order, each [slug, d]
    build_data_chosen,   \* the build items given to the resolver
    triggered,           \* the trigger bundle
    manual_propagate,    \* the manual override table, slug -> strategy
    pc,                  \* "call", "slug", "rule", "endslug", "final", "returned", "raised"
    res_prop,            \* the resolved table: the entries in order, each [slug, d]
    at_least_one_manual,
    slug_i,              \* the position of "for slug in prop"
    res_prop1,
    strat,
    elt_i,               \* the position of "for elt in strat"
    res_strat,
    exc,                 \* the exception that ended the call
    prop_in,             \* prop as given to the call
    manual_in            \* manual_propagate as given to the call

\* main_write_artifacts
VARIABLES
    main_pc,             \* "none" (no run), "load", "parse", "resolve", "call",
                         \* "write", "done", "raised"
    argv,                \* the options of the command line
    spec,                \* images.yml as loaded, but its 'propagate' (prop)
    build_data_all,
    remote_tags,
    build_data_min,
    remote_tags_to_rm,
    build_data_tags,
    generated            \* the artifacts written, by name

mainvars == << main_pc, argv, spec, build_data_all, remote_tags, build_data_min,
               remote_tags_to_rm, build_data_tags, generated >>

\* a caller of get_propagate_strategy that calls it again
VARIABLES
    res_props            \* the tables the earlier calls have returned

\* get_list_dict_dockerfile_matrix_tags_args and get_check_tags
VARIABLES
    c_pc,                \* "none" (no run), "begin", "images", "return", "check",
                         \* "checked", "raised"
    images_yml,          \* json, the file images.yml as loaded
    image_i,             \* the position of "for item in images"
    matrices,            \* list_matrix of the last image
    res_items,           \* res, the build items so far
    c_exc,               \* the exception that ended the run
    clock,               \* the instant the clock shows
    dates,               \* what get_build_date has answered in this run
    runs,                \* the lists the earlier runs have returned
    tags_checked         \* what get_check_tags has returned

compilevars == << c_pc, images_yml, image_i, matrices, res_items, c_exc, clock, dates,
                  runs, tags_checked >>

\* a call of eval_if or of BashLike().format
VARIABLES
    f_pc,                \* "none" (no call), "if", "format", "returned", "raised"
    f_args,              \* the arguments of the call
    f_ret                \* what the call has returned, or the exception it raised

callvars == << f_pc, f_args, f_ret >>

\* get_list_paginated
VARIABLES
    p_pc,                \* "none" (no call), "get", "got", "returned", "raised"
    page,                \* the number of the last page asked for
    allj,                \* the names gathered
    answers,             \* the responses received, the last one last
    asked,               \* the parameters of the requests sent
    p_ret                \* what the call has returned, or the exception it raised

pagevars == << p_pc, page, allj, answers, asked, p_ret >>

vars == << prop, build_data_chosen, triggered, manual_propagate, pc, res_prop,
           at_least_one_manual, slug_i, res_prop1, strat, elt_i, res_strat, exc,
           prop_in, manual_in, mainvars, res_props, compilevars,
                    callvars, pagevars >>

\* Lines 906-913 with the rules tried before the override.
DecideRulesFirst(slug, manual, alom) ==
    IF alom /\ ~ Has(manual, slug) THEN "skip" ELSE "auto"

\* Lines 906-913 with "if manual_propagate" for "if at_least_one_manual":
\* the overrides still to be consumed decide, not those given.
DecideWhileLeft(slug, manual, alom) ==
    IF Has(manual, slug) THEN "manual"
    ELSE IF DOMAIN manual # {} THEN "skip"
    ELSE "auto"

\* Lines 906-913: "manual" when the target has an override, "skip" when the
\* run has overrides and this target has none, else "auto".
Decide(slug, manual, alom) ==
    IF Has(manual, slug) THEN "manual"
    ELSE IF alom THEN "skip"
    ELSE "auto"

\* Lines 898-904 left out.
WhenNeverMissing(strategy) == FALSE

\* Lines 898-904: some rule but the last has no 'when'.
WhenMissing(strategy) ==
    \E n \in 1..(Len(strategy) - 1) : ~ Has(strategy[n], "when")

\* The outcome of lines 883-913 for one target: the exception raised if
\* any, prop1 and r1 as the checks leave them, the rule list and the
\* choice between the override and the rules.
Visited(e, prop1, r1, st, decision) ==
    [exc |-> e, prop1 |-> prop1, res_prop1 |-> r1, strat |-> st,
     decision |-> decision]

\* Lines 896-913.
VisitStrategy(slug, prop1, r1, manual, alom) ==
    IF ~ Has(prop1, "strategy")
    THEN Visited(Exc("KeyError", <<>>, "strategy"), prop1, r1, <<>>, "")
    ELSE IF DOMAIN Pop(prop1, "strategy") # {}
    THEN Visited(Exc("SystemExit", slug, "fields"), Pop(prop1, "strategy"), r1,
                 prop1["strategy"], "")
    ELSE IF WhenMissing(prop1["strategy"])
    THEN Visited(Exc("Error", slug, "when"), Pop(prop1, "strategy"), r1,
                 prop1["strategy"], "")
    ELSE Visited(NoExc, Pop(prop1, "strategy"), r1, prop1["strategy"],
                 Decide(slug, manual, alom))

\* Line 894.
VisitProject(slug, prop1, r1, manual, alom) ==
    IF ~ Has(prop1, "gitlab_project")
    THEN Visited(Exc("KeyError", <<>>, "gitlab_project"), prop1, r1, <<>>, "")
    ELSE VisitStrategy(slug, Pop(prop1, "gitlab_project"),
                       Put(r1, "gitlab_project", prop1["gitlab_project"]),
                       manual, alom)

\* Lines 891-893.
VisitDomain(slug, prop1, r1, manual, alom) ==
    IF ~ Has(prop1, "gitlab_domain")
    THEN Visited(Exc("KeyError", <<>>, "gitlab_domain"), prop1, r1, <<>>, "")
    ELSE IF ~ IsDomain(prop1["gitlab_domain"])
    THEN Visited(Exc("Error", <<>>, "gitlab_domain"), Pop(prop1, "gitlab_domain"),
                 r1, <<>>, "")
    ELSE VisitProject(slug, Pop(prop1, "gitlab_domain"),
                      Put(r1, "gitlab_domain", prop1["gitlab_domain"]),
                      manual, alom)

\* Lines 883-913.
Visit(slug, prop1, manual, alom) ==
    IF ~ Has(prop1, "api_token_env_var")
    THEN Visited(Exc("KeyError", <<>>, "api_token_env_var"), prop1, EmptyDict, <<>>, "")
    ELSE IF ~ IsEnvVarName(prop1["api_token_env_var"])
    THEN Visited(Exc("Error", slug, "api_token_env_var"),
                 Pop(prop1, "api_token_env_var"), EmptyDict, <<>>, "")
    ELSE VisitDomain(slug, Pop(prop1, "api_token_env_var"),
                     Put(EmptyDict, "api_token_env_var", prop1["api_token_env_var"]),
                     manual, alom)

\* The next position of "for slug in prop" after target n.
NextSlug(n) == IF n < Len(prop) THEN "slug" ELSE "final"

\* Lines 877-880.
Call ==
    /\ pc = "call"
    /\ res_prop' = <<>>
    /\ at_least_one_manual' = (DOMAIN manual_propagate # {})
    /\ slug_i' = 1
    /\ pc' = IF prop = <<>> THEN "final" ELSE "slug"
    /\ UNCHANGED << prop, build_data_chosen, triggered, manual_propagate, res_prop1,
                    strat, elt_i, res_strat, exc, prop_in, manual_in, mainvars,
                    res_props, compilevars,
                    callvars, pagevars >>

\* The target at slug_i after its checks, v being their outcome.
Visiting(slug, v) ==
    /\ prop' = [prop EXCEPT ![slug_i].d = v.prop1]
    /\ IF v.exc # NoExc THEN
           /\ pc' = "raised"
           /\ exc' = v.exc
           /\ res_prop1' = v.res_prop1
           /\ UNCHANGED << manual_propagate, res_prop, slug_i, strat, elt_i, res_strat >>
       ELSE IF v.decision = "manual" THEN
           /\ res_prop1' = Put(v.res_prop1, "strategy", manual_propagate[slug])
           /\ manual_propagate' = Pop(manual_propagate, slug)
           /\ res_prop' = Append(res_prop, [slug |-> slug, d |-> res_prop1'])
           /\ pc' = NextSlug(slug_i)
           /\ slug_i' = slug_i + 1
           /\ UNCHANGED << strat, elt_i, res_strat, exc >>
       ELSE IF v.decision = "skip" THEN
           /\ res_prop1' = v.res_prop1
           /\ pc' = NextSlug(slug_i)
           /\ slug_i' = slug_i + 1
           /\ UNCHANGED << manual_propagate, res_prop, strat, elt_i, res_strat, exc >>
       ELSE
           /\ res_prop1' = v.res_prop1
           /\ strat' = v.strat
           /\ res_strat' = EmptyDict
           /\ elt_i' = 1
           /\ pc' = IF v.strat = <<>> THEN "endslug" ELSE "rule"
           /\ UNCHANGED << manual_propagate, res_prop, slug_i, exc >>

\* Lines 882-916: a target, up to its override or to the start of its rules.
VisitSlug ==
    /\ pc = "slug"
    /\ Visiting(prop[slug_i].slug,
                Visit(prop[slug_i].slug, prop[slug_i].d, manual_propagate,
                      at_least_one_manual))
    /\ UNCHANGED << build_data_chosen, triggered, at_least_one_manual, prop_in,
                    manual_in, mainvars,
                    res_props, compilevars,
                    callvars, pagevars >>

\* The rule at elt_i after its iteration, r being the outcome.
Evaluating(r) ==
    /\ strat' = [strat EXCEPT ![elt_i] = r.elt]
    /\ res_strat' = r.res_strat
    /\ IF r.exc # NoExc THEN
           /\ pc' = "raised"
           /\ exc' = r.exc
           /\ UNCHANGED elt_i
       ELSE IF r.brk \/ elt_i = Len(strat) THEN
           /\ pc' = "endslug"
           /\ UNCHANGED << elt_i, exc >>
       ELSE
           /\ pc' = "rule"
           /\ elt_i' = elt_i + 1
           /\ UNCHANGED exc

\* Lines 919-1019: one rule of the target.
EvalRule ==
    /\ pc = "rule"
    /\ Evaluating(EvalElt(strat[elt_i], res_strat, triggered, build_data_chosen))
    /\ UNCHANGED << prop, build_data_chosen, triggered, manual_propagate, res_prop,
                    at_least_one_manual, slug_i, res_prop1, prop_in, manual_in,
                    mainvars,
                    res_props, compilevars,
                    callvars, pagevars >>

\* Line 1022 without its test of 'nil'.
KeptAny(rs) == Has(rs, "mode")

\* Line 1022: the target enters the resolved table.
Kept(rs) == Has(rs, "mode") /\ rs["mode"] # "nil"

\* Lines 1021-1023.
EndSlug ==
    /\ pc = "endslug"
    /\ res_prop1' = Put(res_prop1, "strategy", res_strat)
    /\ res_prop' = IF Kept(res_strat)
                   THEN Append(res_prop, [slug |-> prop[slug_i].slug, d |-> res_prop1'])
                   ELSE res_prop
    /\ pc' = NextSlug(slug_i)
    /\ slug_i' = slug_i + 1
    /\ UNCHANGED << prop, build_data_chosen, triggered, manual_propagate,
                    at_least_one_manual, strat, elt_i, res_strat, exc, prop_in,
                    manual_in, mainvars,
                    res_props, compilevars,
                    callvars, pagevars >>

\* Lines 1025-1028 left out: the table is returned whatever overrides are left.
FinishUnchecked ==
    /\ pc = "final"
    /\ pc' = "returned"
    /\ UNCHANGED << prop, build_data_chosen, triggered, manual_propagate, res_prop,
                    at_least_one_manual, slug_i, res_prop1, strat, elt_i, res_strat, exc,
                    prop_in, manual_in, mainvars,
                    res_props, compilevars,
                    callvars, pagevars >>

\* Lines 1025-1028.
Finish ==
    /\ pc = "final"
    /\ IF at_least_one_manual /\ DOMAIN manual_propagate # {}
       THEN /\ pc' = "raised"
            /\ exc' = Exc("SystemExit", <<>>, "manual_propagate")
       ELSE /\ pc' = "returned"
            /\ UNCHANGED exc
    /\ UNCHANGED << prop, build_data_chosen, triggered, manual_propagate, res_prop,
                    at_least_one_manual, slug_i, res_prop1, strat, elt_i, res_strat,
                    prop_in, manual_in, mainvars,
                    res_props, compilevars,
                    callvars, pagevars >>

Next == Call \/ VisitSlug \/ EvalRule \/ EndSlug \/ Finish

(***************************************************************************)
(* keeper.py: main_write_artifacts                                         *)
(*                                                                         *)
(* An option that argparse leaves to None is the empty list, which the     *)
(* code does not tell from None.  The deprecated options --rebuild-files,  *)
(* --rebuild-tags and --rebuild-keywords, which read lists from files, are *)
(* not given.                                                              *)
(***************************************************************************)

\* minimal_rebuild, but it keeps the items none of whose tags is published.
minimal_rebuild_unpublished(build_tags, remote) ==
    SelectSeq(build_tags, LAMBDA item : meet_list(item.tags, remote) = <<>>)

\* minimal_rebuild(build_tags, remote_tags)
minimal_rebuild(build_tags, remote) ==
    SelectSeq(build_tags, LAMBDA item : ~ subset_list(item.tags, remote))

\* to_rm(all_tags, remote_tags)
to_rm(all_tags, remote) == diff_list(remote, all_tags)

\* get_check_tags with is_unique applied to the tags of each item, not to
\* those of all the items together.
get_check_tags_per_item(seq) ==
    IF \A n \in 1..Len(seq) : is_unique(seq[n].tags)
    THEN Ok(Chain([n \in 1..Len(seq) |-> seq[n].tags]))
    ELSE Raise("Error")

\* get_check_tags(seq): the tags of all the items; Error when two are equal
get_check_tags(seq) ==
    IF is_unique(Chain([n \in 1..Len(seq) |-> seq[n].tags]))
    THEN Ok(Chain([n \in 1..Len(seq) |-> seq[n].tags]))
    ELSE Raise("Error")

\* merge_data(l1, l2)
merge_data(l1, l2) == l1 \o diff_list(l2, l1)

\* The images get_nightly_only keeps (lines 716-720).
NightlyImages(images) ==
    SelectSeq(images, LAMBDA item : Has(item["build"], "nightly") /\ item["build"]["nightly"])

\* get_nightly_only(spec, debug)
get_nightly_only(json, envs) ==
    IF ~ Has(json, "images") THEN Raise("KeyError")
    ELSE get_list_dict_dockerfile_matrix_tags_args(
             [json EXCEPT !["images"] = NightlyImages(json["images"])], envs)

\* get_file_only(build_data_all, dockerfiles)
get_file_only(all, dockerfiles) ==
    SelectSeq(all, LAMBDA item : item.path \in Range(dockerfiles))

\* get_tag_only(build_data_all, tags)
get_tag_only(all, tags) ==
    SelectSeq(all, LAMBDA item : meet_list(item.tags, tags) # <<>>)

\* get_keyword_only(build_data_all, keywords)
get_keyword_only(all, keywords) ==
    SelectSeq(all, LAMBDA item : meet_list(item.keywords, keywords) # <<>>)

\* Lines 1298-1305 with the branch of --rebuild-all alone.
ChosenAll(rebuild_all, all, min, res_nightly, res_rebuild_file, res_rebuild_tag, res_rebuild_keyword) ==
    all

\* Lines 1298-1305.
Chosen(rebuild_all, all, min, res_nightly, res_rebuild_file, res_rebuild_tag, res_rebuild_keyword) ==
    IF rebuild_all THEN all
    ELSE merge_data(merge_data(merge_data(merge_data(min, res_nightly),
                                          res_rebuild_file),
                               res_rebuild_tag),
                    res_rebuild_keyword)

\* the run ends with an exception
Fail(type, what) ==
    /\ main_pc' = "raised"
    /\ exc' = Exc(type, <<>>, what)

\* Lines 1255-1305, all being the compiled items, all_tags their tags, hub
\* the tags Docker Hub lists and res_nightly the items compiled again.
Selecting(all, all_tags, hub, res_nightly) ==
    IF all.err # "" \/ all_tags.err # "" \/ res_nightly.err # "" THEN
        /\ Fail(IF all.err # "" THEN all.err
                ELSE IF all_tags.err # "" THEN all_tags.err ELSE res_nightly.err,
                "compile")
        /\ UNCHANGED << build_data_all, remote_tags, build_data_min, remote_tags_to_rm,
                        build_data_tags >>
    ELSE
        /\ main_pc' = "parse"
        /\ build_data_all' = all.val
        /\ remote_tags' = hub
        /\ build_data_min' = minimal_rebuild(all.val, hub)
        /\ remote_tags_to_rm' = to_rm(all_tags.val, hub)
        /\ build_data_tags' =
               Chosen(argv.rebuild_all, all.val, build_data_min', res_nightly.val,
                      get_file_only(all.val,
                                    uniqify(flat_map_trim_comma_split(argv.rebuild_file))),
                      get_tag_only(all.val,
                                   uniqify_tags(flat_map_trim_comma_split(argv.rebuild_tag))),
                      get_keyword_only(all.val,
                                       uniqify_tags(flat_map_trim_comma_split(
                                                        argv.rebuild_keyword))))
        /\ UNCHANGED exc

\* all_tags of the compiled items
Checking(all, hub, res_nightly) ==
    Selecting(all, IF all.err # "" THEN all ELSE get_check_tags(all.val), hub, res_nightly)


SlugChars == Lowercase \cup Uppercase \cup Range(Digits) \cup { "_", "-" }

CommandChars == Lowercase \cup { "-" }

ItemChars == Lowercase \cup Uppercase \cup Range(Digits) \cup { "_", ".", "-" }

\* The length of the longest prefix of s made of characters of S.
SpanLen(s, S) ==
    IF \E n \in 1..Len(s) : s[n] \notin S THEN IndexOf(s, Range(s) \ S) - 1 ELSE Len(s)

\* s without its leading spaces
SkipSpaces(s) == SubSeq(s, SpanLen(s, { " " }) + 1, Len(s))

\* The modes the code names, as it compares a str against them.
ModeNames ==
    << << "nil", << "n", "i", "l" >> >>,
       << "minimal", << "m", "i", "n", "i", "m", "a", "l" >> >>,
       << "nightly", << "n", "i", "g", "h", "t", "l", "y" >> >>,
       << "rebuild-keyword",
          << "r", "e", "b", "u", "i", "l", "d", "-", "k", "e", "y", "w", "o", "r", "d" >> >>,
       << "rebuild-all", << "r", "e", "b", "u", "i", "l", "d", "-", "a", "l", "l" >> >> >>

\* The mode a str spells, "other" when it spells none.
ModeOf(text) ==
    IF \E n \in 1..Len(ModeNames) : ModeNames[n][2] = text
    THEN ModeNames[CHOOSE n \in 1..Len(ModeNames) : ModeNames[n][2] = text][1]
    ELSE "other"

NoGroups == [ok |-> FALSE, slug |-> <<>>, command |-> "other", item |-> <<>>]

\* (?:[:] *([\w._-]+))?$ on what follows the command; no item is ''
GroupItem(slug, command, rest, item) ==
    IF rest = <<>> THEN [ok |-> TRUE, slug |-> slug, command |-> command, item |-> <<>>]
    ELSE IF rest[1] # ":" \/ item = <<>> \/ Range(item) \ ItemChars # {} THEN NoGroups
    ELSE [ok |-> TRUE, slug |-> slug, command |-> command, item |-> item]

\* ([a-z-]+) on the n first characters of rest
GroupCommand(slug, rest, n) ==
    IF n = 0 THEN NoGroups
    ELSE GroupItem(slug, ModeOf(SubSeq(rest, 1, n)), SubSeq(rest, n + 1, Len(rest)),
                   SkipSpaces(SubSeq(rest, n + 2, Len(rest))))

\* ^([A-Za-z0-9_-]+): * on elt, its first colon at k
GroupSlug(elt, k, rest) ==
    IF k < 2 \/ Range(SubSeq(elt, 1, k - 1)) \ SlugChars # {} THEN NoGroups
    ELSE GroupCommand(SubSeq(elt, 1, k - 1), rest, SpanLen(rest, CommandChars))

\* re.match(r'^([A-Za-z0-9_-]+): *([a-z-]+)(?:[:] *([\w._-]+))?$', elt)
PropagateGroups(elt, k) ==
    GroupSlug(elt, k, SkipSpaces(SubSeq(elt, k + 1, Len(elt))))

\* Lines 1334-1337.
ResElt(command, item) ==
    IF item # <<>>
    THEN [mode |-> command, item |-> uniqify_tags(trim_comma_split(item))]
    ELSE [mode |-> command]

s_disable == << "(", ")" >>

RECURSIVE ManualOf(_, _)
\* Lines 1322-1338, msed being the groups of the first occurrence.
ManualNext(msed, others, manual) ==
    IF ~ msed.ok THEN Raise("Error")
    ELSE IF ~ check_manual_mode(msed.command) THEN Raise("Error")
    ELSE IF msed.command = "rebuild-keyword" /\ msed.item = <<>> THEN Raise("Error")
    \* the message of line 1332 applies % to its last part alone
    ELSE IF msed.command # "rebuild-keyword" /\ msed.item # <<>> THEN Raise("TypeError")
    ELSE ManualOf(others, Put(manual, msed.slug, ResElt(msed.command, msed.item)))

\* Lines 1316-1338: "for elt in propagate".
ManualOf(propagate, manual) ==
    IF propagate = <<>> THEN Ok(manual)
    ELSE IF Head(propagate) = s_disable THEN ManualOf(Tail(propagate), manual)
    ELSE ManualNext(PropagateGroups(Head(propagate), IndexOf(Head(propagate), { ":" })),
                    Tail(propagate), manual)

\* Lines 1347-1351 with "if" for "elif": each option sets its own event.
TriggeredBoth(nightly, rebuild_all) ==
    (IF rebuild_all THEN [rebuild_all |-> TRUE] ELSE EmptyDict)
        @@ (IF nightly THEN [nightly |-> TRUE] ELSE EmptyDict)

\* Lines 1347-1351.
TriggeredOf(nightly, rebuild_all) ==
    IF rebuild_all THEN [rebuild_all |-> TRUE]
    ELSE IF nightly THEN [nightly |-> TRUE]
    ELSE EmptyDict

(***************************************************************************)
(* images.yml and the answers of the environment                           *)
(***************************************************************************)

s_dev  == << "d", "e", "v" >>
s_819  == << "8", ".", "1", "9" >>
s_820  == << "8", ".", "2", "0" >>
s_coq  == << "c", "o", "q" >>
s_base == << "b", "a", "s", "e" >>

\* '{matrix[coq]}'
T_coq == << "{" >> \o kw_matrix \o << "[" >> \o s_coq \o << "]", "}" >>
\* 'dev'
T_dev == s_dev
\* 'dev, 8.19,,dev'
T_both == s_dev \o << ",", " " >> \o s_819 \o << ",", "," >> \o s_dev
\* '{matrix[base]}': no build item has this axis
T_base == << "{" >> \o kw_matrix \o << "[" >> \o s_base \o << "]", "}" >>
\* '{matrix[coq]}, x,{keywords}'
T_item == T_coq \o << ",", " ", "x", "," >> \o << "{" >> \o kw_keywords \o << "}" >>
\* '{defaults[build_date]}'
T_date == << "{" >> \o kw_defaults \o << "[" >> \o kw_build_date \o << "]", "}" >>
\* '"{matrix[coq]}" == 8.20'
T_if820 == << "\"" >> \o T_coq \o << "\"", " ", "=", "=", " " >> \o s_820

\* images.yml: a nightly image of one version and an image of two versions
\*   - matrix: {coq: ['dev']}
\*     build: {context: './d', nightly: true, keywords: ['dev'],
\*             args: {DATE: '{defaults[build_date]}'},
\*             tags: [{tag: '{matrix[coq]}'}]}
\*   - matrix: {coq: ['8.19', '8.20']}
\*     build: {context: 's', keywords: ['{matrix[coq]}', 'x'],
\*             tags: [{tag: '{matrix[coq]}'},
\*                    {tag: 'latest', if: '"{matrix[coq]}" == 8.20'}],
\*             after_deploy: 'p', after_deploy_export: {V: '{matrix[coq]}'}}
ImageDev ==
    [matrix |-> << << s_coq, << s_dev >> >> >>,
     build |-> [context |-> << ".", "/", "d" >>, nightly |-> TRUE,
                keywords |-> << s_dev >>,
                args |-> << << << "D", "A", "T", "E" >>, T_date >> >>,
                tags |-> << [tag |-> T_coq] >>]]

ImageStable ==
    [matrix |-> << << s_coq, << s_819, s_820 >> >> >>,
     build |-> [context |-> << "s" >>,
                keywords |-> << T_coq, << "x" >> >>,
                tags |-> << [tag |-> T_coq],
                            [tag |-> << "l", "a", "t", "e", "s", "t" >>,
                             if |-> Str(T_if820)] >>,
                after_deploy |-> Str(<< "p" >>),
                after_deploy_export |-> << << << "V" >>, T_coq >> >>]]

Images == [images |-> << ImageDev, ImageStable >>]

\* The files images.yml of the model.
ImageSpecs == { Images }

\* - matrix: {coq: ['8.19']}
\*   build: {context: 'n', keywords: ['x'], tags: []}
ImageBare ==
    [matrix |-> << << s_coq, << s_819 >> >> >>,
     build |-> [context |-> << "n" >>, keywords |-> << << "x" >> >>, tags |-> <<>>]]

\* images.yml with an image that has no tag
ImagesBare == [images |-> << ImageDev, ImageBare, ImageStable >>]

BareSpecs == { ImagesBare }

\* The instants the clock can show, in order.
MaxTicks == 2

\* get_build_date() at the n-th instant
DateText(n) == << "T", Digits[n + 1] >>

\* What the clock and the commit API answer at each of n calls: the clock
\* never goes back.
EnvSeqs(n) ==
    { [i \in 1..n |-> [build_date |-> DateText(f[i]), commit |-> << "c" >>]] :
        f \in { g \in [1..n -> 1..MaxTicks] : \A i \in 1..(n - 1) : g[i] <= g[i + 1] } }

\* The tags Docker Hub can list (get_remote_tags).
HubAnswers ==
    { <<>>,
      << << "d", "e", "v" >>, << "8", ".", "1", "9" >>, << "8", ".", "2", "0" >>,
         << "l", "a", "t", "e", "s", "t" >> >>,
      << << "d", "e", "v" >>, << "8", ".", "1", "9" >>, << "o", "l", "d" >> >> }

\* get_list_dict_dockerfile_matrix_tags_args(json, debug), tabulated over
\* the files of the model and the answers of the environment
Compiled ==
    [json \in ImageSpecs \cup BareSpecs |->
        [envs \in EnvSeqs(Count(json["images"])) |->
            get_list_dict_dockerfile_matrix_tags_args(json, envs)]]

\* get_nightly_only(spec, debug), tabulated likewise
CompiledNightly ==
    [json \in ImageSpecs \cup BareSpecs |->
        [envs \in EnvSeqs(Count(NightlyImages(json["images"]))) |->
            get_nightly_only(json, envs)]]

\* Lines 1255-1305.
Select ==
    /\ main_pc = "load"
    /\ \E hub \in HubAnswers :
       \E envs \in EnvSeqs(Count(spec["images"]) + Count(NightlyImages(spec["images"]))) :
           Checking(Compiled[spec][SubSeq(envs, 1, Count(spec["images"]))], hub,
                    IF argv.nightly
                    THEN CompiledNightly[spec][SubSeq(envs, Count(spec["images"]) + 1,
                                                      Len(envs))]
                    ELSE Ok(<<>>))
    /\ UNCHANGED << prop, build_data_chosen, triggered, manual_propagate, pc, res_prop,
                    at_least_one_manual, slug_i, res_prop1, strat, elt_i, res_strat,
                    prop_in, manual_in, argv, spec, generated,
                    res_props, compilevars,
                    callvars, pagevars >>

\* Lines 1312-1351, manual being the override table parsed.
Preprocessing(manual) ==
    IF manual.err # "" THEN
        /\ Fail(manual.err, "propagate")
        /\ UNCHANGED << manual_propagate, triggered >>
    ELSE
        /\ main_pc' = "resolve"
        /\ manual_propagate' = manual.val
        /\ triggered' = TriggeredOf(argv.nightly, argv.rebuild_all)
        /\ UNCHANGED exc

\* Lines 1312-1351.
Preprocess ==
    /\ main_pc = "parse"
    /\ Preprocessing(ManualOf(argv.propagate, EmptyDict))
    /\ UNCHANGED << prop, build_data_chosen, pc, res_prop, at_least_one_manual, slug_i,
                    res_prop1, strat, elt_i, res_strat, prop_in, manual_in, argv, spec,
                    build_data_all, remote_tags, build_data_min, remote_tags_to_rm,
                    build_data_tags, generated, res_props, compilevars,
                    callvars, pagevars >>

\* Resolve, but '()' does not disable the call.
ResolveAlways ==
    /\ main_pc = "resolve"
    /\ IF FALSE
       THEN /\ main_pc' = "write"
            /\ UNCHANGED << pc, build_data_chosen, prop_in, manual_in >>
       ELSE /\ main_pc' = "call"
            /\ pc' = "call"
            /\ build_data_chosen' = build_data_tags
            /\ prop_in' = prop
            /\ manual_in' = manual_propagate
    /\ UNCHANGED << prop, triggered, manual_propagate, res_prop, at_least_one_manual,
                    slug_i, res_prop1, strat, elt_i, res_strat, exc, argv, spec,
                    build_data_all, remote_tags, build_data_min, remote_tags_to_rm,
                    build_data_tags, generated, res_props, compilevars,
                    callvars, pagevars >>

\* Lines 1362-1375: the call of get_propagate_strategy, unless '()' is given.
Resolve ==
    /\ main_pc = "resolve"
    /\ IF s_disable \in Range(argv.propagate)
       THEN /\ main_pc' = "write"
            /\ UNCHANGED << pc, build_data_chosen, prop_in, manual_in >>
       ELSE /\ main_pc' = "call"
            /\ pc' = "call"
            /\ build_data_chosen' = build_data_tags
            /\ prop_in' = prop
            /\ manual_in' = manual_propagate
    /\ UNCHANGED << prop, triggered, manual_propagate, res_prop, at_least_one_manual,
                    slug_i, res_prop1, strat, elt_i, res_strat, exc, argv, spec,
                    build_data_all, remote_tags, build_data_min, remote_tags_to_rm,
                    build_data_tags, generated, res_props, compilevars,
                    callvars, pagevars >>

\* Lines 1377-1387, but the README: the artifacts are written.
Write ==
    /\ \/ main_pc = "write"
       \/ main_pc = "call" /\ pc = "returned"
    /\ generated' =
           [propagate |-> IF main_pc = "write" THEN <<>> ELSE res_prop,
            build_data_chosen |-> build_data_tags,
            build_data_all |-> build_data_all,
            build_data_min |-> build_data_min,
            remote_tags |-> remote_tags,
            remote_tags_to_rm |-> remote_tags_to_rm,
            Dockerfiles |-> uniqify([n \in 1..Len(build_data_all) |->
                                        build_data_all[n].path])]
    /\ main_pc' = "done"
    /\ UNCHANGED << prop, build_data_chosen, triggered, manual_propagate, pc, res_prop,
                    at_least_one_manual, slug_i, res_prop1, strat, elt_i, res_strat, exc,
                    prop_in, manual_in, argv, spec, build_data_all, remote_tags,
                    build_data_min, remote_tags_to_rm, build_data_tags,
                    res_props, compilevars,
                    callvars, pagevars >>

NextMain == Select \/ Preprocess \/ Resolve \/ Write \/ Next

(***************************************************************************)
(* The inputs                                                              *)
(***************************************************************************)

\* The longest rule list of a target.
MaxRules == 2

\* The longest build item list given to a call.
MaxBuilds == 2

\* The most occurrences of --propagate on a command line.
MaxProps == 2

SeqsUpTo(S, n) == UNION { [1..m -> S] : m \in 0..n }

\* The lists of at most n elements of S, none twice.
ListsUpTo(S, n) == { l \in SeqsUpTo(S, n) : is_unique(l) }

\* The build items images.yml compiles to at the first instants of the
\* clock: a run compiles an image twice at most, with the others (line 1256)
\* and with the nightly ones (line 1264), so that a call sees two dates.
BuildItems ==
    UNION { UNION { Range(Compiled[json][envs].val) :
                      envs \in { e \in EnvSeqs(Count(json["images"])) :
                                  \A n \in DOMAIN e :
                                      e[n].build_date \in { DateText(1), DateText(2) } } } :
              json \in ImageSpecs }

\* The build item lists a run can choose: items in any order, none twice.
BuildLists == ListsUpTo(BuildItems, MaxBuilds)

Rules ==
    { [when |-> "nightly", mode |-> "nightly"],
      [when |-> "rebuild-all", mode |-> "rebuild-all"],
      [when |-> "forall", expr |-> T_coq, subset |-> T_dev, mode |-> "nil"],
      [when |-> "forall", expr |-> T_coq, subset |-> T_both,
       mode |-> "rebuild-keyword", item |-> T_item],
      [when |-> "exists", expr |-> T_coq, subset |-> T_dev, mode |-> "minimal"],
      [when |-> "exists", expr |-> T_both, subset |-> T_coq, mode |-> "nightly",
       extra |-> s_dev],
      [when |-> "forall", expr |-> T_base, subset |-> T_dev, mode |-> "minimal"],
      [mode |-> "minimal"],
      [mode |-> "nil"] }

Strategies == SeqsUpTo(Rules, MaxRules)

Target(slug, api_token_env_var, gitlab_domain, strategy) ==
    [slug |-> slug,
     d |-> [api_token_env_var |-> api_token_env_var, gitlab_domain |-> gitlab_domain,
            gitlab_project |-> << "4", "2" >>, strategy |-> strategy]]

s_1      == << "s", "1" >>
s_2      == << "s", "2" >>
s_token  == << "T", "O", "K", "_", "1" >>
s_domain == << "g", "i", "t", "-", "l", "a", "b", ".", "c", "o", "m" >>

\* The trigger bundles main_write_artifacts builds (lines 1347-1351).
TriggerBundles == { TriggeredOf(n, r) : n \in BOOLEAN, r \in BOOLEAN }

\* The override tables main_write_artifacts builds (lines 1312-1338) for
\* one target.
Overrides ==
    { [mode |-> "minimal"], [mode |-> "rebuild-keyword", item |-> << s_dev >>] }

\* No call of get_propagate_strategy has begun.
NoCall ==
    /\ res_prop = <<>>
    /\ at_least_one_manual = FALSE
    /\ slug_i = 0
    /\ res_prop1 = EmptyDict
    /\ strat = <<>>
    /\ elt_i = 0
    /\ res_strat = EmptyDict
    /\ exc = NoExc

\* There is no run of main_write_artifacts.
NoRun ==
    /\ main_pc = "none"
    /\ argv = EmptyDict
    /\ spec = EmptyDict
    /\ build_data_all = <<>>
    /\ remote_tags = <<>>
    /\ build_data_min = <<>>
    /\ remote_tags_to_rm = <<>>
    /\ build_data_tags = <<>>
    /\ generated = EmptyDict

\* There is no run of get_list_dict_dockerfile_matrix_tags_args.
NoCompile ==
    /\ c_pc = "none"
    /\ images_yml = EmptyDict
    /\ image_i = 0
    /\ matrices = <<>>
    /\ res_items = <<>>
    /\ c_exc = NoExc
    /\ clock = 1
    /\ dates = <<>>
    /\ runs = <<>>
    /\ tags_checked = <<>>

NoEval ==
    /\ f_pc = "none"
    /\ f_args = EmptyDict
    /\ f_ret = Ok(<<>>)

NoPages ==
    /\ p_pc = "none"
    /\ page = 0
    /\ allj = <<>>
    /\ answers = <<>>
    /\ asked = <<>>
    /\ p_ret = Ok(<<>>)

\* A call of get_propagate_strategy on a table of one target, with every
\* rule list up to MaxRules.
Init ==
    /\ \E strategy \in Strategies :
           prop = << Target(s_1, s_token, s_domain, strategy) >>
    /\ build_data_chosen \in BuildLists
    /\ triggered \in TriggerBundles
    /\ manual_propagate \in { EmptyDict } \cup { (s_1 :> o) : o \in Overrides }
    /\ pc = "call"
    /\ NoCall
    /\ prop_in = prop
    /\ manual_in = manual_propagate
    /\ NoRun
    /\ res_props = <<>>
    /\ NoCompile
    /\ NoEval
    /\ NoPages

Spec == Init /\ [][Next]_vars

\* The most calls of get_propagate_strategy a caller makes on one table.
MaxCalls == 2

\* A caller that holds the table a call has returned calls again with the
\* same objects: spec['propagate'] as the call has left it, the same build
\* items and trigger bundle, and the override table, either the same object
\* or one equal to what it gave first.  The locals of the new call are not
\* bound yet.
CallAgain ==
    /\ pc = "returned"
    /\ Len(res_props) < MaxCalls - 1
    /\ res_props' = Append(res_props, res_prop)
    /\ manual_propagate' \in { manual_propagate, manual_in }
    /\ prop_in' = prop
    /\ manual_in' = manual_propagate'
    /\ pc' = "call"
    /\ res_prop' = <<>>
    /\ at_least_one_manual' = FALSE
    /\ slug_i' = 0
    /\ res_prop1' = EmptyDict
    /\ strat' = <<>>
    /\ elt_i' = 0
    /\ res_strat' = EmptyDict
    /\ UNCHANGED << prop, build_data_chosen, triggered, exc, mainvars, compilevars,
                    callvars, pagevars >>

NextAgain == Next \/ CallAgain

\* Calls of get_propagate_strategy on the same table, one after the other.
SpecAgain == Init /\ [][NextAgain]_vars

\* Rules whose mode is no mode keyword, and rules to select before them.
ModeRules ==
    { [when |-> "nightly", mode |-> "weekly"],
      [when |-> "forall", expr |-> T_coq, subset |-> T_dev, mode |-> "weekly"],
      [when |-> "exists", expr |-> T_coq, subset |-> T_dev, mode |-> "Minimal"],
      [mode |-> "weekly"],
      [when |-> "rebuild-all", mode |-> "rebuild-all"],
      [when |-> "exists", expr |-> T_coq, subset |-> T_dev, mode |-> "minimal"],
      [mode |-> "minimal"] }

\* An automatic resolution of a table of one target whose rules are of
\* ModeRules, every rule list up to MaxRules.
InitModes ==
    /\ \E strategy \in SeqsUpTo(ModeRules, MaxRules) :
           prop = << Target(s_1, s_token, s_domain, strategy) >>
    /\ build_data_chosen \in BuildLists
    /\ triggered \in TriggerBundles
    /\ manual_propagate = EmptyDict
    /\ pc = "call"
    /\ NoCall
    /\ prop_in = prop
    /\ manual_in = manual_propagate
    /\ NoRun
    /\ res_props = <<>>
    /\ NoCompile
    /\ NoEval
    /\ NoPages

SpecModes == InitModes /\ [][Next]_vars

\* '()', 's1: minimal', 's2: rebuild-keyword: dev', 's1: nil', 's3: nightly'
PropagateArgs ==
    { s_disable,
      s_1 \o << ":", " ", "m", "i", "n", "i", "m", "a", "l" >>,
      s_2 \o << ":", " ", "r", "e", "b", "u", "i", "l", "d", "-", "k", "e", "y", "w",
                "o", "r", "d", ":", " " >> \o s_dev,
      s_1 \o << ":", " ", "n", "i", "l" >>,
      << "s", "3", ":", " ", "n", "i", "g", "h", "t", "l", "y" >> }

\* The command lines: at most one of --rebuild-file, --rebuild-tag and
\* --rebuild-keyword is given.
CommandLines ==
    { [nightly |-> n, rebuild_all |-> r, propagate |-> p,
       rebuild_file |-> IF b = 1 THEN << << "d", "/", "D", "o", "c", "k", "e", "r",
                                            "f", "i", "l", "e" >> >> ELSE <<>>,
       rebuild_tag |-> IF b = 2 THEN << << "l", "a", "t", "e", "s", "t", ",", " ",
                                           "d", "e", "v" >> >> ELSE <<>>,
       rebuild_keyword |-> IF b = 3 THEN << << "x" >> >> ELSE <<>>] :
        n \in BOOLEAN, r \in BOOLEAN, p \in SeqsUpTo(PropagateArgs, MaxProps),
        b \in 0..3 }

\* The rule lists of the two targets of images.yml.
FirstStrategies ==
    { << [when |-> "nightly", mode |-> "nightly"],
         [when |-> "rebuild-all", mode |-> "rebuild-all"] >>,
      << [when |-> "forall", expr |-> T_coq, subset |-> T_dev,
          mode |-> "rebuild-keyword", item |-> T_item],
         [mode |-> "minimal"] >>,
      << [mode |-> "minimal"], [mode |-> "nil"] >> }

SecondStrategies ==
    { << [when |-> "exists", expr |-> T_coq, subset |-> T_dev, mode |-> "nil"],
         [mode |-> "minimal"] >> }

\* spec['propagate']: the two targets, in either order
Tables ==
    UNION { { << Target(s_1, s_token, s_domain, a), Target(s_2, s_token, s_domain, b) >>,
              << Target(s_2, s_token, s_domain, b), Target(s_1, s_token, s_domain, a) >> } :
            a \in FirstStrategies, b \in SecondStrategies }

\* A run of main_write_artifacts.
InitMain ==
    /\ main_pc = "load"
    /\ argv \in CommandLines
    /\ spec \in ImageSpecs
    /\ prop \in Tables
    /\ build_data_all = <<>>
    /\ remote_tags = <<>>
    /\ build_data_min = <<>>
    /\ remote_tags_to_rm = <<>>
    /\ build_data_tags = <<>>
    /\ generated = EmptyDict
    /\ build_data_chosen = <<>>
    /\ triggered = EmptyDict
    /\ manual_propagate = EmptyDict
    /\ pc = "idle"
    /\ NoCall
    /\ prop_in = <<>>
    /\ manual_in = EmptyDict
    /\ res_props = <<>>
    /\ NoCompile
    /\ NoEval
    /\ NoPages

SpecMain == InitMain /\ [][NextMain]_vars

\* A run of main_write_artifacts without --propagate, on the images.yml that
\* has an image without tag.
InitBare ==
    /\ main_pc = "load"
    /\ argv \in { c \in CommandLines : c.propagate = <<>> }
    /\ spec \in BareSpecs
    /\ prop \in Tables
    /\ build_data_all = <<>>
    /\ remote_tags = <<>>
    /\ build_data_min = <<>>
    /\ remote_tags_to_rm = <<>>
    /\ build_data_tags = <<>>
    /\ generated = EmptyDict
    /\ build_data_chosen = <<>>
    /\ triggered = EmptyDict
    /\ manual_propagate = EmptyDict
    /\ pc = "idle"
    /\ NoCall
    /\ prop_in = <<>>
    /\ manual_in = EmptyDict
    /\ res_props = <<>>
    /\ NoCompile
    /\ NoEval
    /\ NoPages

SpecBare == InitBare /\ [][NextMain]_vars

(***************************************************************************)
(* keeper.py: get_list_dict_dockerfile_matrix_tags_args, the state of a    *)
(* run, and get_check_tags on what it returns                              *)
(***************************************************************************)

s_latest == << "l", "a", "t", "e", "s", "t" >>
s_409    == << "4", ".", "0", "9" >>

\* '{matrix[base]} == "latest"'
T_ifLatest == T_base \o << " ", "=", "=", " ", "\"" >> \o s_latest \o << "\"" >>
\* '{matrix[coq]} != dev'
T_ifNotDev == T_coq \o << " ", "!", "=", " " >> \o s_dev

\* - matrix: {base: ['latest', '4.09'], coq: ['dev']}
\*   build: {context: 'b', args: {D: '{defaults[build_date]}'},
\*           tags: [{tag: '{matrix[coq]}_{matrix[base]}'},
\*                  {tag: 'latest', if: '{matrix[base]} == "latest"'}]}
ImageBase ==
    [matrix |-> << << s_base, << s_latest, s_409 >> >>, << s_coq, << s_dev >> >> >>,
     build |-> [context |-> << "b" >>,
                args |-> << << << "D" >>, T_date >> >>,
                tags |-> << [tag |-> T_coq \o << "_" >> \o T_base],
                            [tag |-> s_latest, if |-> Str(T_ifLatest)] >>]]

\* - matrix: {}
\*   build: {context: 'e', tags: [{tag: 'e'}]}
ImageEmpty ==
    [matrix |-> <<>>,
     build |-> [context |-> << "e" >>, tags |-> << [tag |-> << "e" >>] >>]]

\* - matrix: {coq: ['dev']}
\*   build: {context: 't', tags: [{tag: '{matrix[coq]}-{defaults[build_date]}'}]}
ImageDated ==
    [matrix |-> << << s_coq, << s_dev >> >> >>,
     build |-> [context |-> << "t" >>,
                tags |-> << [tag |-> T_coq \o << "-" >> \o T_date] >>]]

\* - matrix: {coq: ['8.19']}
\*   build: {context: 'x', tags: [{tag: 'x{matrix[coq]}'}],
\*           after_deploy_export: {V: '{matrix[coq]}', D: '{defaults[build_date]}'}}
ImageExport ==
    [matrix |-> << << s_coq, << s_819 >> >> >>,
     build |-> [context |-> << "x" >>,
                tags |-> << [tag |-> << "x" >> \o T_coq] >>,
                after_deploy_export |-> << << << "V" >>, T_coq >>,
                                           << << "D" >>, T_date >> >>]]

\* - matrix: {coq: ['dev', '8.19']}
\*   build: {context: 'r', tags: [{tag: 'r{matrix[coq]}'}],
\*           after_deploy_export: {V: '{matrix[coq]}', D: '{defaults[build_date]}'},
\*           after_deploy: ['a {matrix[coq]}',
\*                          {run: 'r {matrix[coq]}', if: '{matrix[coq]} != dev'},
\*                          {run: 'z'}]}
ImageScript ==
    [matrix |-> << << s_coq, << s_dev, s_819 >> >> >>,
     build |-> [context |-> << "r" >>,
                tags |-> << [tag |-> << "r" >> \o T_coq] >>,
                after_deploy_export |-> << << << "V" >>, T_coq >>,
                                           << << "D" >>, T_date >> >>,
                after_deploy |->
                    List(<< Str(<< "a", " " >> \o T_coq),
                            Dict([run |-> << "r", " " >> \o T_coq,
                                  if |-> Str(T_ifNotDev)]),
                            Dict([run |-> << "z" >>]) >>)]]

\* - matrix: {coq: ['dev', 'dev']}
\*   build: {context: 'w', tags: [{tag: 'w{matrix[coq]}'}, {tag: 'wdev'}]}
ImageTwin ==
    [matrix |-> << << s_coq, << s_dev, s_dev >> >> >>,
     build |-> [context |-> << "w" >>,
                tags |-> << [tag |-> << "w" >> \o T_coq],
                            [tag |-> << "w" >> \o s_dev] >>]]

\* The most images of a file images.yml.
MaxImages == 2

\* The most runs on one file.
MaxRuns == 2

\* The files images.yml given to a run.
CompileSpecs ==
    { [images |-> l] :
        l \in SeqsUpTo({ ImageStable, ImageBase, ImageEmpty, ImageDated, ImageExport,
                         ImageScript, ImageTwin }, MaxImages) }

\* What the clock shows at n readings from the instant t on: it never goes
\* back.
Ticks(t, n) ==
    { f \in [1..n -> t..MaxTicks] : \A i \in 1..(n - 1) : f[i] <= f[i + 1] }

\* What the clock and the commit API answer at the readings f.
EnvAt(f) == [i \in DOMAIN f |-> [build_date |-> DateText(f[i]), commit |-> << "c" >>]]

\* the run ends with an exception
Raised(type, what) ==
    /\ c_pc' = "raised"
    /\ c_exc' = Exc(type, <<>>, what)

\* Lines 362-365.
Begin ==
    /\ c_pc = "begin"
    /\ IF ~ Has(images_yml, "images")
       THEN /\ Raised("KeyError", "images")
            /\ UNCHANGED << image_i, matrices, res_items, dates >>
       ELSE /\ c_pc' = IF images_yml["images"] = <<>> THEN "return" ELSE "images"
            /\ image_i' = 1
            /\ matrices' = <<>>
            /\ res_items' = <<>>
            /\ dates' = <<>>
            /\ UNCHANGED c_exc
    /\ UNCHANGED << images_yml, clock, runs, tags_checked >>
    /\ UNCHANGED << prop, build_data_chosen, triggered, manual_propagate, pc, res_prop,
                    at_least_one_manual, slug_i, res_prop1, strat, elt_i, res_strat, exc,
                    prop_in, manual_in, mainvars, res_props,
                    callvars, pagevars >>

\* The image at image_i after its iteration: list_matrix is its matrix
\* expanded, items what it compiles to, f the readings of the clock.
Compiling(list_matrix, items, f) ==
    /\ matrices' = IF list_matrix.err = "" THEN list_matrix.val ELSE <<>>
    /\ IF items.err # "" THEN
           /\ Raised(items.err, "compile")
           /\ UNCHANGED << image_i, res_items, clock, dates >>
       ELSE
           /\ res_items' = res_items \o items.val
           /\ dates' = dates \o [i \in DOMAIN f |-> DateText(f[i])]
           /\ clock' = IF f = <<>> THEN clock ELSE f[Len(f)]
           /\ image_i' = image_i + 1
           /\ c_pc' = IF image_i = Len(images_yml["images"]) THEN "return" ELSE "images"
           /\ UNCHANGED c_exc

\* Lines 370-462 for the image item, compiled with the readings f.
CompilingItem(item, f) ==
    Compiling(IF Has(item, "matrix") THEN product_build_matrix(item["matrix"])
              ELSE Raise("KeyError"),
              CompileImage(item,
                           IF Has(images_yml, "args") THEN images_yml["args"] ELSE <<>>,
                           IF Has(images_yml, "vars") THEN images_yml["vars"] ELSE <<>>,
                           EnvAt(f)),
              f)

\* Lines 370-462: one iteration of "for item in images".
CompileOne ==
    /\ c_pc = "images"
    /\ \E f \in Ticks(clock, Count(<< images_yml["images"][image_i] >>)) :
           CompilingItem(images_yml["images"][image_i], f)
    /\ UNCHANGED << images_yml, runs, tags_checked >>
    /\ UNCHANGED << prop, build_data_chosen, triggered, manual_propagate, pc, res_prop,
                    at_least_one_manual, slug_i, res_prop1, strat, elt_i, res_strat, exc,
                    prop_in, manual_in, mainvars, res_props,
                    callvars, pagevars >>

\* Lines 463-466: the list is returned to the caller.
Return ==
    /\ c_pc = "return"
    /\ runs' = Append(runs, res_items)
    /\ c_pc' = "check"
    /\ UNCHANGED << images_yml, image_i, matrices, res_items, c_exc, clock, dates,
                    tags_checked >>
    /\ UNCHANGED << prop, build_data_chosen, triggered, manual_propagate, pc, res_prop,
                    at_least_one_manual, slug_i, res_prop1, strat, elt_i, res_strat, exc,
                    prop_in, manual_in, mainvars, res_props,
                    callvars, pagevars >>

\* The caller with all_tags, what get_check_tags gives for the list.
CheckingTags(all_tags) ==
    IF all_tags.err # ""
    THEN /\ Raised(all_tags.err, "tags")
         /\ UNCHANGED tags_checked
    ELSE /\ c_pc' = "checked"
         /\ tags_checked' = all_tags.val
         /\ UNCHANGED c_exc

\* get_check_tags on the list returned (as at line 1257).
CheckTags ==
    /\ c_pc = "check"
    /\ CheckingTags(get_check_tags(res_items))
    /\ UNCHANGED << images_yml, image_i, matrices, res_items, clock, dates, runs >>
    /\ UNCHANGED << prop, build_data_chosen, triggered, manual_propagate, pc, res_prop,
                    at_least_one_manual, slug_i, res_prop1, strat, elt_i, res_strat, exc,
                    prop_in, manual_in, mainvars, res_props,
                    callvars, pagevars >>

\* The caller runs get_list_dict_dockerfile_matrix_tags_args again on the
\* file it has loaded (as get_nightly_only does at line 1264 for the nightly
\* images).
Rerun ==
    /\ c_pc = "checked"
    /\ Len(runs) < MaxRuns
    /\ c_pc' = "begin"
    /\ UNCHANGED << images_yml, image_i, matrices, res_items, c_exc, clock, dates, runs,
                    tags_checked >>
    /\ UNCHANGED << prop, build_data_chosen, triggered, manual_propagate, pc, res_prop,
                    at_least_one_manual, slug_i, res_prop1, strat, elt_i, res_strat, exc,
                    prop_in, manual_in, mainvars, res_props,
                    callvars, pagevars >>

NextCompile == Begin \/ CompileOne \/ Return \/ CheckTags \/ Rerun

\* A run of get_list_dict_dockerfile_matrix_tags_args on a file images.yml.
InitCompile ==
    /\ c_pc = "begin"
    /\ images_yml \in CompileSpecs
    /\ image_i = 0
    /\ matrices = <<>>
    /\ res_items = <<>>
    /\ c_exc = NoExc
    /\ clock = 1
    /\ dates = <<>>
    /\ runs = <<>>
    /\ tags_checked = <<>>
    /\ prop = <<>>
    /\ build_data_chosen = <<>>
    /\ triggered = EmptyDict
    /\ manual_propagate = EmptyDict
    /\ pc = "idle"
    /\ NoCall
    /\ prop_in = <<>>
    /\ manual_in = EmptyDict
    /\ NoRun
    /\ res_props = <<>>
    /\ NoEval
    /\ NoPages

SpecCompile == InitCompile /\ [][NextCompile]_vars

(***************************************************************************)
(* keeper.py: eval_if, and bash_formatter.py: BashLike().format, as calls  *)
(***************************************************************************)

s_coq_dev == << "c", "o", "q", "_", "d", "e", "v" >>
\* '{vars[coq_dev]}'
T_vars == << "{" >> \o kw_vars \o << "[" >> \o s_coq_dev \o << "]", "}" >>

Quoted(text) == << "\"" >> \o text \o << "\"" >>

\* The operands of the conditions of the model, as they are written: texts
\* and templates, bare or quoted, and a text with a quote inside.
Operands ==
    { s_dev, s_819, T_coq, T_vars, Quoted(s_dev), Quoted(T_coq),
      << "d", "\"", "e", "v" >> }

s_eq  == << "=", "=" >>
s_neq == << "!", "=" >>
Operators == { s_eq, s_neq }

\* the whitespace written around an operand
Pads == { <<>>, << " " >> }

\* the condition 'A op B' with pad around both operands
Written(a, op, b, pad) == pad \o a \o pad \o op \o pad \o b \o pad

\* the condition 'A op1 B op2 C'
Chained(a, op1, b, op2, c) ==
    a \o << " " >> \o op1 \o << " " >> \o b \o << " " >> \o op2 \o << " " >> \o c

ChainOperands == { s_dev, s_819, T_coq }

\* the conditions without operator: an operand alone, or two around '='
Unsupported ==
    Operands \cup { a \o << " ", "=", " " >> \o b : a, b \in ChainOperands }

CondStrings ==
    { Written(a, op, b, pad) : a, b \in Operands, op \in Operators, pad \in Pads }
    \cup { Chained(a, op1, b, op2, c) : a, b, c \in ChainOperands, op1, op2 \in Operators }
    \cup Unsupported

\* The longest list of conditions of the model.
MaxConds == 2

\* the conditions a list of the model is made of
ListedConds ==
    { None, Str(T_ifNotDev), Str(T_if820), Str(Written(T_coq, s_eq, T_vars, <<>>)),
      Str(s_dev), Str(Chained(s_dev, s_eq, s_dev, s_eq, s_dev)) }

\* the conditions that are one string or None, and those that are a list
RawConditions == { None } \cup { Str(c) : c \in CondStrings }
RawLists == { List(l) : l \in SeqsUpTo(ListedConds, MaxConds) }

\* the matrix assignments and the global vars of the calls
CallMatrices == { << << s_coq, v >> >> : v \in { s_dev, s_819, s_820 } }
CallVars == << << s_coq_dev, s_dev >> >>

IfArgs ==
    { [raw_condition |-> c, matrix |-> m, gvars |-> CallVars] :
          c \in RawConditions, m \in CallMatrices }

IfListArgs ==
    { [raw_condition |-> c, matrix |-> m, gvars |-> CallVars] :
          c \in RawLists, m \in CallMatrices }

\* what a call leaves, its result being r
Returning(r) ==
    /\ f_ret' = r
    /\ f_pc' = IF r.err = "" THEN "returned" ELSE "raised"
    /\ UNCHANGED f_args

\* eval_if(raw_condition, matrix, gvars)
EvalIf ==
    /\ f_pc = "if"
    /\ Returning(eval_if(f_args.raw_condition, f_args.matrix, f_args.gvars))
    /\ UNCHANGED << prop, build_data_chosen, triggered, manual_propagate, pc, res_prop,
                    at_least_one_manual, slug_i, res_prop1, strat, elt_i, res_strat, exc,
                    prop_in, manual_in, mainvars, res_props, compilevars, pagevars >>

\* The longest text and the longest glob of the calls of format.
MaxText == 3
MaxGlob == 3

\* the texts a suffix is stripped from, and the globs: literals, '?' and '*'
Texts == SeqsUpTo({ "a", ".", "%" }, MaxText)
Globs == SeqsUpTo({ "a", ".", "%", "?", "*" }, MaxGlob) \ { <<>> }

\* '{s[i]}'
T_step(i) == << "{", "s", "[" >> \o i \o << "]", "}" >>

\* the steps '%glob' and '%%glob'
SuffixSteps == { << "%" >> \o g : g \in Globs } \cup { << "%", "%" >> \o g : g \in Globs }

SuffixArgs ==
    { [template |-> T_step(i), kwargs |-> (<< "s" >> :> Str(t))] :
          i \in SuffixSteps, t \in Texts }

s_x   == << "_", "x" >>
s_y   == << "_", "y" >>
s_val == << "_", "v", "a", "l" >>

\* the names a template reads in a mapping: '_x' is a key of it, '_y' and
\* 'coq' are not
PrivateNames == { s_x, s_y, s_val }

\* '{matrix.name}', '{matrix[name]}' and '{matrix[coq].name}'
PrivateTemplates ==
    { << "{" >> \o kw_matrix \o << "." >> \o n \o << "}" >> : n \in PrivateNames }
    \cup { << "{" >> \o kw_matrix \o << "[" >> \o n \o << "]", "}" >> : n \in PrivateNames }
    \cup { << "{" >> \o kw_matrix \o << "[" >> \o s_coq \o << "]", "." >> \o n \o << "}" >> :
               n \in PrivateNames }

\* the mappings read: with the key '_x', and without
PrivateMatrices ==
    { << << s_coq, s_dev >>, << s_x, << "k", "e", "y" >> >> >>, << << s_coq, s_dev >> >> }

PrivateArgs ==
    { [template |-> t, kwargs |-> (kw_matrix :> Dict(m))] :
          t \in PrivateTemplates, m \in PrivateMatrices }

FormatArgs == SuffixArgs \cup PrivateArgs

\* BashLike().format(template, **kwargs)
FormatCall ==
    /\ f_pc = "format"
    /\ Returning(Format(f_args.template, f_args.kwargs))
    /\ UNCHANGED << prop, build_data_chosen, triggered, manual_propagate, pc, res_prop,
                    at_least_one_manual, slug_i, res_prop1, strat, elt_i, res_strat, exc,
                    prop_in, manual_in, mainvars, res_props, compilevars, pagevars >>

NextCalls == EvalIf \/ FormatCall

\* everything but a call of eval_if or of format is at rest
NoResolver ==
    /\ prop = <<>>
    /\ build_data_chosen = <<>>
    /\ triggered = EmptyDict
    /\ manual_propagate = EmptyDict
    /\ pc = "idle"
    /\ NoCall
    /\ prop_in = <<>>
    /\ manual_in = EmptyDict
    /\ NoRun
    /\ res_props = <<>>
    /\ NoCompile

InitCalls ==
    /\ \/ f_pc = "if" /\ f_args \in IfArgs
       \/ f_pc = "if" /\ f_args \in IfListArgs
       \/ f_pc = "format" /\ f_args \in FormatArgs
    /\ f_ret = Ok(<<>>)
    /\ NoResolver
    /\ NoPages

SpecCalls == InitCalls /\ [][NextCalls]_vars

(***************************************************************************)
(* keeper.py: get_list_paginated, as get_remote_tags calls it              *)
(***************************************************************************)

\* The most pages a call asks for.
MaxPages == 4

\* Line 499.
per_page == 50

RECURSIVE str(_)
\* str(n) of a natural number
str(n) == IF n < 10 THEN << Digits[n + 1] >> ELSE Append(str(n \div 10), Digits[(n % 10) + 1])

\* hub_build_params_pagination(page, per_page)
hub_build_params_pagination(n, size) ==
    << << << "p", "a", "g", "e" >>, str(n) >>,
       << << "p", "a", "g", "e", "_", "s", "i", "z", "e" >>, str(size) >> >>

\* The pages of tags Docker Hub answers with: the 'results' of a response.
HubPages ==
    { <<>>,
      << [name |-> s_dev] >>,
      << [name |-> s_819], [name |-> s_dev] >> }

\* The responses of the server: a page, a body without 'results', not found,
\* and a server error.
Responses ==
    { [status_code |-> 200, json |-> [results |-> r]] : r \in HubPages }
    \cup { [status_code |-> c, json |-> [detail |-> << "x" >>]] : c \in { 200, 404, 500 } }

\* bool(response) of requests: the status is no client or server error
ok(response) == ~ (400 <= response.status_code /\ response.status_code < 600)

\* hub_lambda_list(j)
hub_lambda_list(j) ==
    IF "results" \in DOMAIN j
    THEN Ok([n \in 1..Len(j.results) |-> j.results[n].name])
    ELSE Raise("KeyError")

\* Lines 502-509: the next page is asked for and the response received.
\* The sleep of lines 504-505 changes no value.
RequestPage ==
    /\ p_pc = "get"
    /\ page < MaxPages
    /\ page' = page + 1
    /\ asked' = Append(asked, merge_dict(EmptyDict, hub_build_params_pagination(page + 1, per_page)))
    /\ \E response \in Responses : answers' = Append(answers, response)
    /\ p_pc' = "got"
    /\ UNCHANGED << allj, p_ret >>
    /\ UNCHANGED << prop, build_data_chosen, triggered, manual_propagate, pc, res_prop,
                    at_least_one_manual, slug_i, res_prop1, strat, elt_i, res_strat, exc,
                    prop_in, manual_in, mainvars, res_props, compilevars, callvars >>

\* the call ends with the exception e
PageRaise(e) ==
    /\ p_pc' = "raised"
    /\ p_ret' = Raise(e)
    /\ UNCHANGED allj

\* Lines 517-522: j is a list
PageList(j) ==
    IF j # <<>>
    THEN /\ allj' = allj \o j
         /\ p_pc' = "get"
         /\ UNCHANGED p_ret
    ELSE /\ p_pc' = "returned"
         /\ p_ret' = Ok(allj)
         /\ UNCHANGED allj

\* PageOf, but a response 404 is a failed response like the others, as in
\* src/external/docker-keeper/keeper.py, lines 374-376.
PageOfFailing(response) ==
    IF ~ ok(response)
    THEN PageRaise("Error")
    ELSE IF hub_lambda_list(response.json).err # ""
         THEN PageRaise(hub_lambda_list(response.json).err)
         ELSE PageList(hub_lambda_list(response.json).val)

\* Lines 510-522: the response is turned into the list j, and j ends the
\* loop or is added to allj. What hub_lambda_list returns is a list, which
\* check_list (line 517) lets pass.
PageOf(response) ==
    IF response.status_code = 404
    THEN PageList(<<>>)
    ELSE IF ~ ok(response)
         THEN PageRaise("Error")
         ELSE IF hub_lambda_list(response.json).err # ""
              THEN PageRaise(hub_lambda_list(response.json).err)
              ELSE PageList(hub_lambda_list(response.json).val)

\* Lines 510-522 on the response just received.
HandlePage ==
    /\ p_pc = "got"
    /\ PageOf(answers[Len(answers)])
    /\ UNCHANGED << page, answers, asked >>
    /\ UNCHANGED << prop, build_data_chosen, triggered, manual_propagate, pc, res_prop,
                    at_least_one_manual, slug_i, res_prop1, strat, elt_i, res_strat, exc,
                    prop_in, manual_in, mainvars, res_props, compilevars, callvars >>

\* get_list_paginated(url, None, None, hub_lambda_list)
NextPages == RequestPage \/ HandlePage

\* Lines 500-501.
InitPages ==
    /\ p_pc = "get"
    /\ page = 0
    /\ allj = <<>>
    /\ answers = <<>>
    /\ asked = <<>>
    /\ p_ret = Ok(<<>>)
    /\ NoResolver
    /\ NoEval

SpecPages == InitPages /\ [][NextPages]_vars

\* The call is one thread of control: once requests.get has returned, the
\* lines after it are run.
FairPages == SpecPages /\ WF_vars(HandlePage)

(***************************************************************************)
(* The properties                                                          *)
(*                                                                         *)
(* The match tests are stated on sets, from the text of the expansions,    *)
(* without the operators the resolver is made of.                          *)
(***************************************************************************)

\* The maximal runs without comma of a text that has no space.
Runs(t) ==
    { SubSeq(t, p[1], p[2]) :
        p \in { q \in (1..Len(t)) \X (1..Len(t)) :
                  /\ q[1] <= q[2]
                  /\ \A n \in q[1]..q[2] : t[n] # ","
                  /\ q[1] = 1 \/ t[q[1] - 1] = ","
                  /\ q[2] = Len(t) \/ t[q[2] + 1] = "," } }

\* A comma-separated list read as a set: spaces, empty entries, order and
\* repetition do not count.
CommaSet(text) == Runs(SelectSeq(text, LAMBDA c : c # " "))

\* The text a template expands to against a build item.
Expansion(template, b) == eval_propagate(template, b).val

\* The test of a forall or exists rule on one build item.
Included(rule, b) ==
    CommaSet(Expansion(rule["expr"], b)) \subseteq CommaSet(Expansion(rule["subset"], b))

\* a comes before b in the order (length, then code points)
ShortlexBefore(a, b) ==
    \/ Len(a) < Len(b)
    \/ /\ Len(a) = Len(b)
       /\ \E n \in 1..Len(a) :
              /\ Ord(a[n]) < Ord(b[n])
              /\ \A m \in 1..(n - 1) : a[m] = b[m]

IsWhen(rule, when) == "when" \in DOMAIN rule /\ rule["when"] = when

\* The match test of a rule on the trigger bundle and the build items of
\* the call.
Holds(rule) ==
    IF "when" \notin DOMAIN rule THEN TRUE
    ELSE CASE rule["when"] = "nightly" -> "nightly" \in DOMAIN triggered
           [] rule["when"] = "rebuild-all" -> "rebuild_all" \in DOMAIN triggered
           [] rule["when"] = "forall" ->
                  \A k \in 1..Len(build_data_chosen) : Included(rule, build_data_chosen[k])
           [] rule["when"] = "exists" ->
                  \E k \in 1..Len(build_data_chosen) : Included(rule, build_data_chosen[k])
           [] OTHER -> FALSE

\* The position of the first rule of the list whose match test holds, or 0.
FirstHit(rules) ==
    IF \E n \in 1..Len(rules) : Holds(rules[n])
    THEN CHOOSE n \in 1..Len(rules) :
             /\ Holds(rules[n])
             /\ \A m \in 1..(n - 1) : ~ Holds(rules[m])
    ELSE 0

\* The rule list of target i, as given to the call.
RulesOf(i) == prop_in[i].d["strategy"]

\* The rule list of the target the call is at.
RulesIn == RulesOf(slug_i)

\* Some rule of the list but the last has no 'when'.
Malformed(rules) == \E n \in 1..(Len(rules) - 1) : "when" \notin DOMAIN rules[n]

\* The positions of the resolved table that hold the target slug.
EntriesOf(slug) == { j \in 1..Len(res_prop) : res_prop[j].slug = slug }

\* The call is in the rules of the target at slug_i.
InRules == pc \in { "rule", "endslug" }

\* Rule n of the target at slug_i has been evaluated, without exception.
Done(n) ==
    /\ InRules
    /\ n \in 1..Len(strat)
    /\ n < elt_i \/ (pc = "endslug" /\ n = elt_i)

\* Rule n of the target at slug_i has matched.
Matched(n) == pc = "endslug" /\ n = elt_i /\ "mode" \in DOMAIN res_strat

\* C1: every target of the rule table that has a manual override is
\* resolved to exactly that override (mode and keyword list), whatever its
\* rule list, the trigger bundle and the build items are, and none of its
\* rules is evaluated.
C1_OverrideUsedExactly ==
    /\ \A j \in 1..Len(res_prop) :
           res_prop[j].slug \in DOMAIN manual_in
           => /\ "strategy" \in DOMAIN res_prop[j].d
              /\ res_prop[j].d["strategy"] = manual_in[res_prop[j].slug]
    /\ pc = "returned"
       => \A i \in 1..Len(prop_in) :
              prop_in[i].slug \in DOMAIN manual_in => EntriesOf(prop_in[i].slug) # {}
    /\ InRules => prop_in[slug_i].slug \notin DOMAIN manual_in

\* A call has returned the override of its first target, a keyword list,
\* where the rules of that target resolve to something else.
C1_Witness ==
    /\ pc = "returned"
    /\ Len(prop_in) >= 1
    /\ prop_in[1].slug \in DOMAIN manual_in
    /\ "item" \in DOMAIN manual_in[prop_in[1].slug]
    /\ FirstHit(RulesOf(1)) # 0
    /\ RulesOf(1)[FirstHit(RulesOf(1))]["mode"] = "minimal"
    /\ Len(res_prop) = 1
    /\ res_prop[1].d["strategy"] = manual_in[prop_in[1].slug]

\* C2: when the manual override table given to a call is not empty, the
\* resolved table has an entry for no target without an override, and no
\* rule is evaluated, in whatever order the targets are visited and however
\* many overrides are left to consume.
C2_NoOverrideNoEntry ==
    manual_in # EmptyDict
    => /\ \A j \in 1..Len(res_prop) : res_prop[j].slug \in DOMAIN manual_in
       /\ ~ InRules

\* A call has returned one entry for two targets: the first had the only
\* override, and the rules of the second, visited when no override was
\* left, resolve to a mode that is not 'nil'.
C2_Witness ==
    /\ pc = "returned"
    /\ Len(prop_in) = 2
    /\ DOMAIN manual_in = { prop_in[1].slug }
    /\ manual_propagate = EmptyDict
    /\ FirstHit(RulesOf(2)) # 0
    /\ RulesOf(2)[FirstHit(RulesOf(2))]["mode"] = "minimal"
    /\ Len(res_prop) = 1
    /\ res_prop[1].slug = prop_in[1].slug

\* C3: without manual override, a target is resolved to the mode of the
\* first rule of its list whose match test holds: the evaluation stops at
\* that rule, the rules after it are left as they were, and a target none
\* of whose rules holds has no mode and no entry.
C3_FirstMatchingRuleWins ==
    /\ (pc = "endslug" /\ manual_in = EmptyDict)
       => IF FirstHit(RulesIn) = 0
          THEN res_strat = EmptyDict /\ elt_i >= Len(strat)
          ELSE /\ elt_i = FirstHit(RulesIn)
               /\ "mode" \in DOMAIN res_strat
               /\ res_strat["mode"] = RulesIn[elt_i]["mode"]
               /\ \A n \in (elt_i + 1)..Len(strat) : strat[n] = RulesIn[n]
    /\ (pc = "returned" /\ manual_in = EmptyDict)
       => \A i \in 1..Len(prop_in) :
              IF FirstHit(RulesOf(i)) = 0
              THEN EntriesOf(prop_in[i].slug) = {}
              ELSE IF RulesOf(i)[FirstHit(RulesOf(i))]["mode"] = "nil"
              THEN EntriesOf(prop_in[i].slug) = {}
              ELSE /\ Cardinality(EntriesOf(prop_in[i].slug)) = 1
                   /\ \A j \in EntriesOf(prop_in[i].slug) :
                          res_prop[j].d["strategy"]["mode"]
                              = RulesOf(i)[FirstHit(RulesOf(i))]["mode"]

\* A call has returned the mode of the first of two rules that both hold
\* and have different modes.
C3_Witness ==
    /\ pc = "returned"
    /\ manual_in = EmptyDict
    /\ Len(prop_in) >= 1
    /\ Len(RulesOf(1)) = 2
    /\ Holds(RulesOf(1)[1])
    /\ Holds(RulesOf(1)[2])
    /\ RulesOf(1)[1]["mode"] # RulesOf(1)[2]["mode"]
    /\ EntriesOf(prop_in[1].slug) # {}
    /\ \A j \in EntriesOf(prop_in[1].slug) :
           res_prop[j].d["strategy"]["mode"] = RulesOf(1)[1]["mode"]

\* C4: a forall rule matches iff, for every build item given to the call,
\* the comma list its expr expands to is included, as a set, in the one its
\* subset expands to; so it matches when there is no build item.
C4_ForallMatchesIffAllIncluded ==
    \A n \in 1..Len(strat) :
        (Done(n) /\ IsWhen(RulesIn[n], "forall"))
        => (Matched(n)
            <=> \A k \in 1..Len(build_data_chosen) :
                    Included(RulesIn[n], build_data_chosen[k]))

\* A forall rule has matched on two build items of different versions,
\* against a subset written with a space, an empty entry and a repetition.
C4_Witness ==
    /\ pc = "endslug"
    /\ elt_i \in 1..Len(strat)
    /\ Matched(elt_i)
    /\ IsWhen(RulesIn[elt_i], "forall")
    /\ RulesIn[elt_i]["subset"] = T_both
    /\ Len(build_data_chosen) = 2
    /\ build_data_chosen[1].matrix # build_data_chosen[2].matrix

\* C5: an exists rule matches iff some build item given to the call passes
\* the test of inclusion of the forall rule; it does not match when there is
\* no build item, and it matches when there is one and the forall test on
\* the same expr and subset holds.
C5_ExistsMatchesIffSomeIncluded ==
    \A n \in 1..Len(strat) :
        (Done(n) /\ IsWhen(RulesIn[n], "exists"))
        => /\ Matched(n)
              <=> \E k \in 1..Len(build_data_chosen) :
                      Included(RulesIn[n], build_data_chosen[k])
           /\ build_data_chosen = <<>> => ~ Matched(n)
           /\ (/\ build_data_chosen # <<>>
               /\ ForallScan(RulesIn[n]["expr"], RulesIn[n]["subset"],
                             build_data_chosen) = "T")
              => Matched(n)

\* An exists rule has matched on two build items, one of which fails the
\* test.
C5_Witness ==
    /\ pc = "endslug"
    /\ elt_i \in 1..Len(strat)
    /\ Matched(elt_i)
    /\ IsWhen(RulesIn[elt_i], "exists")
    /\ Len(build_data_chosen) = 2
    /\ \E k \in 1..2 : ~ Included(RulesIn[elt_i], build_data_chosen[k])

\* C6, as claimed: in a run of main_write_artifacts a nightly rule matches
\* iff the run has --nightly and a rebuild-all rule matches iff the run has
\* --rebuild-all, the two options together included.
C6_TriggersFollowOptions ==
    \A n \in 1..Len(strat) :
        /\ (Done(n) /\ IsWhen(RulesIn[n], "nightly")) => (Matched(n) <=> argv.nightly)
        /\ (Done(n) /\ IsWhen(RulesIn[n], "rebuild-all"))
           => (Matched(n) <=> argv.rebuild_all)

\* C6, amended: in a run of main_write_artifacts a nightly rule matches iff
\* the run has --nightly without --rebuild-all, and a rebuild-all rule
\* matches iff the run has --rebuild-all.
C6_RebuildAllHidesNightly ==
    \A n \in 1..Len(strat) :
        /\ (Done(n) /\ IsWhen(RulesIn[n], "nightly"))
           => (Matched(n) <=> (argv.nightly /\ ~ argv.rebuild_all))
        /\ (Done(n) /\ IsWhen(RulesIn[n], "rebuild-all"))
           => (Matched(n) <=> argv.rebuild_all)

\* In a run with both options the nightly rule has not matched and the
\* rebuild-all rule after it has.
C6_Witness ==
    /\ main_pc = "call"
    /\ argv.nightly
    /\ argv.rebuild_all
    /\ pc = "endslug"
    /\ elt_i = 2
    /\ IsWhen(RulesIn[1], "nightly")
    /\ IsWhen(RulesIn[2], "rebuild-all")
    /\ Matched(2)

\* C7, as claimed: the build items the resolver works on in a run of
\* main_write_artifacts are the full compiled list of the run.
C7_ResolverGetsAllItems ==
    main_pc = "call" => build_data_chosen = build_data_all

\* A compiled item the run selects: a tag of it is not on Docker Hub, or
\* --rebuild-file names its Dockerfile, or --rebuild-tag one of its tags,
\* or --rebuild-keyword one of its keywords.
Wanted(b) ==
    \/ ~ (Range(b.tags) \subseteq Range(remote_tags))
    \/ \E f \in Range(argv.rebuild_file) : b.path \in CommaSet(f)
    \/ \E t \in Range(argv.rebuild_tag) : Range(b.tags) \cap CommaSet(t) # {}
    \/ \E k \in Range(argv.rebuild_keyword) : Range(b.keywords) \cap CommaSet(k) # {}

\* An item of the nightly images of images.yml, compiled at some instant.
IsNightlyItem(b) ==
    \E envs \in DOMAIN CompiledNightly[spec] : b \in Range(CompiledNightly[spec][envs].val)

\* C7, amended: the build items the resolver works on in a run of
\* main_write_artifacts are the items chosen for the build: the full
\* compiled list with --rebuild-all; otherwise the compiled items that have
\* a tag missing on Docker Hub or that --rebuild-file, --rebuild-tag or
\* --rebuild-keyword select, and with --nightly the items of the nightly
\* images compiled again, and no other item.
C7_ResolverGetsChosenItems ==
    main_pc = "call"
    => /\ build_data_chosen = build_data_tags
       /\ IF argv.rebuild_all THEN build_data_chosen = build_data_all
          ELSE /\ \A b \in Range(build_data_all) :
                      Wanted(b) => b \in Range(build_data_chosen)
               /\ \A b \in Range(build_data_chosen) :
                      \/ b \in Range(build_data_all) /\ Wanted(b)
                      \/ argv.nightly /\ IsNightlyItem(b)
               /\ (argv.nightly /\ NightlyImages(spec["images"]) # <<>>)
                  => \E b \in Range(build_data_chosen) : IsNightlyItem(b)

\* In a run without --rebuild-all a forall rule has matched on the items
\* chosen, while a compiled item of the run fails its test.
C7_Witness ==
    /\ main_pc = "call"
    /\ ~ argv.rebuild_all
    /\ pc = "endslug"
    /\ elt_i = 1
    /\ Matched(1)
    /\ IsWhen(RulesIn[1], "forall")
    /\ build_data_chosen # <<>>
    /\ \E b \in Range(build_data_all) : ~ Included(RulesIn[1], b)

\* An argument of --propagate that gives the mode 'nil' to a target.
AsksNil(elt) ==
    \E k \in 1..Len(elt) :
        /\ elt[k] = ":"
        /\ SelectSeq(SubSeq(elt, k + 1, Len(elt)), LAMBDA c : c # " ")
               = << "n", "i", "l" >>

C9_KeywordsSortedUnion ==
    pc = "endslug"
    => /\ ("mode" \in DOMAIN res_strat /\ res_strat["mode"] = "rebuild-keyword")
          <=> "item" \in DOMAIN res_strat
       /\ "item" \in DOMAIN res_strat
          => /\ Range(res_strat["item"])
                  = UNION { CommaSet(Expansion(RulesIn[elt_i]["item"],
                                               build_data_chosen[k])) :
                              k \in 1..Len(build_data_chosen) }
             /\ \A i, j \in 1..Len(res_strat["item"]) :
                    i < j => ShortlexBefore(res_strat["item"][i], res_strat["item"][j])
             /\ <<>> \notin Range(res_strat["item"])

\* A rebuild-keyword rule has matched on two build items and yields three
\* keywords, the shortest first though it is the last in lexical order.
C9_Witness ==
    /\ pc = "endslug"
    /\ "item" \in DOMAIN res_strat
    /\ Len(build_data_chosen) = 2
    /\ Len(res_strat["item"]) = 3
    /\ res_strat["item"][1] = << "x" >>

\* C10: a rule without 'when' that is evaluated is the last of its list and
\* matches; a call on a table where a rule list has a rule without 'when'
\* before its last rule evaluates no rule of that list, does not return, and
\* ends at that target with an Error that names it.
C10_WhenOptionalOnLastRuleOnly ==
    /\ \A n \in 1..Len(strat) :
           (Done(n) /\ "when" \notin DOMAIN RulesIn[n])
           => /\ n = Len(strat)
              /\ Matched(n)
              /\ res_strat["mode"] = RulesIn[n]["mode"]
    /\ InRules => ~ Malformed(RulesIn)
    /\ pc = "returned" => \A i \in 1..Len(prop_in) : ~ Malformed(RulesOf(i))
    /\ (/\ pc = "raised"
        /\ slug_i \in 1..Len(prop_in)
        /\ Malformed(RulesOf(slug_i)))
       => exc = Exc("Error", prop_in[slug_i].slug, "when")
    /\ main_pc = "done" => \A i \in 1..Len(prop_in) : ~ Malformed(RulesOf(i))

\* A call has resolved its first target and ended at the second, whose
\* first rule of two has no 'when', with the Error that names it.
C10_Witness ==
    /\ pc = "raised"
    /\ slug_i = 2
    /\ Len(prop_in) = 2
    /\ Malformed(RulesOf(2))
    /\ exc = Exc("Error", prop_in[2].slug, "when")
    /\ Len(res_prop) = 1

\* The targets the override table of the call names and the rule table lacks.
Absent == DOMAIN manual_in \ { prop_in[i].slug : i \in 1..Len(prop_in) }

\* The call has ended on the overrides left over (lines 1026-1027).
LeftOver == pc = "raised" /\ exc = Exc("SystemExit", <<>>, "manual_propagate")

\* C11: a call whose override table names a target absent from the rule
\* table returns no table and the run writes nothing; a call that went
\* through all its targets with such an override ends with the failure on
\* the overrides left over, and that failure comes only then, every target
\* having been given its override or passed over.
C11_AbsentTargetFailsAtEnd ==
    /\ Absent # {} => pc # "returned" /\ main_pc # "done"
    /\ (pc = "raised" /\ slug_i > Len(prop_in)) => LeftOver
    /\ LeftOver
       => /\ Absent # {}
          /\ slug_i = Len(prop_in) + 1
          /\ manual_propagate = [s \in Absent |-> manual_in[s]]
          /\ \A i \in 1..Len(prop_in) :
                 IF prop_in[i].slug \in DOMAIN manual_in
                 THEN \E j \in EntriesOf(prop_in[i].slug) :
                          res_prop[j].d["strategy"] = manual_in[prop_in[i].slug]
                 ELSE EntriesOf(prop_in[i].slug) = {}

\* A call given an override for its first target and one for a target it
\* has not has resolved the first, passed over the second and failed.
C11_Witness ==
    /\ LeftOver
    /\ Len(prop_in) = 2
    /\ Cardinality(DOMAIN manual_in) = 2
    /\ Cardinality(Absent) = 1
    /\ Len(res_prop) = 1
    /\ res_prop[1].slug = prop_in[1].slug
    /\ generated = EmptyDict

\* C12: a second call of get_propagate_strategy with the same rule table
\* object, trigger bundle and build items succeeds and returns the table the
\* first call returned.
C12_SecondCallSameTable ==
    (Len(res_props) = 1 /\ pc \in { "returned", "raised" })
    => (pc = "returned" /\ res_prop = res_props[1])

\* C13: when a call of get_propagate_strategy returns, the rule table and
\* the override table are what they were when it was called.
C13_InputsUnchanged ==
    pc = "returned" => (prop = prop_in /\ manual_propagate = manual_in)

\* C14: two runs of get_list_dict_dockerfile_matrix_tags_args on the same
\* file return the same list of build items, and within a run every build
\* item is given the same build date.
C14_CompilationDeterministic ==
    /\ Len(runs) = 2 => runs[1] = runs[2]
    /\ \A i, j \in DOMAIN dates : dates[i] = dates[j]

\* The images of the file given to the run.
ImagesIn == images_yml["images"]

\* list_matrix holds the expansion of the matrix of an image.
HasExpanded ==
    \/ c_pc \in { "images", "return", "check", "checked" } /\ image_i >= 2
    \/ c_pc = "raised" /\ c_exc.what = "tags"
    \/ c_pc = "raised" /\ c_exc.what = "compile" /\ c_exc.type # "AssertionError"

\* The axis mapping list_matrix was expanded from.
AxesAt ==
    IF c_pc = "raised" /\ c_exc.what = "compile"
    THEN ImagesIn[image_i]["matrix"]
    ELSE ImagesIn[image_i - 1]["matrix"]

RECURSIVE SizeOf(_)
\* n1 * ... * nk for the axes of m
SizeOf(m) == IF m = <<>> THEN 1 ELSE Len(Head(m)[2]) * SizeOf(Tail(m))

\* One position in the list of values of each axis of m.
Choices(m) ==
    { f \in [1..Len(m) -> 1..SizeOf(m)] : \A k \in 1..Len(m) : f[k] <= Len(m[k][2]) }

\* There are n1 * ... * nk assignments.
Counted == Len(matrices) = SizeOf(AxesAt)

\* Each assignment gives every axis, in order, one of its values.
Total ==
    \A n \in DOMAIN matrices :
        /\ Len(matrices[n]) = Len(AxesAt)
        /\ \A k \in 1..Len(AxesAt) :
               /\ matrices[n][k][1] = AxesAt[k][1]
               /\ matrices[n][k][2] \in Range(AxesAt[k][2])

\* Every choice of one value per axis is an assignment.
Complete ==
    \A f \in Choices(AxesAt) :
        \E n \in DOMAIN matrices :
            \A k \in 1..Len(AxesAt) : matrices[n][k][2] = AxesAt[k][2][f[k]]

\* No two assignments are equal.
Distinct ==
    \A i, j \in DOMAIN matrices : i < j => matrices[i] # matrices[j]

\* An empty mapping ends the run with an assertion failure, and only that.
Rejected ==
    /\ \A n \in 1..(image_i - 1) : ImagesIn[n]["matrix"] # <<>>
    /\ (c_pc = "raised" /\ c_exc.what = "compile")
       => (c_exc.type = "AssertionError" <=> ImagesIn[image_i]["matrix"] = <<>>)

\* C15 as stated: the expansion of a non-empty axis mapping of sizes n1..nk
\* has n1 * ... * nk assignments, each giving every axis one of its values,
\* and no two of them are equal; an empty mapping is rejected.
C15_ProductAllDistinct ==
    /\ HasExpanded => (Counted /\ Total /\ Distinct)
    /\ Rejected

\* C15: the expansion of a non-empty axis mapping of sizes n1..nk has
\* n1 * ... * nk assignments, each giving every axis one of its values, one
\* for every choice of a position per axis; no two are equal when no axis
\* lists a value twice; an empty mapping is rejected.
C15_ProductOnePerChoice ==
    /\ HasExpanded
       => /\ Counted
          /\ Total
          /\ Complete
          /\ (\A k \in 1..Len(AxesAt) : is_unique(AxesAt[k][2])) => Distinct
    /\ Rejected

\* A mapping of two axes, of two values and of one, has been expanded into
\* two assignments that differ, and the next image has an empty mapping.
C15_Witness ==
    /\ c_pc = "images"
    /\ image_i = 2
    /\ Len(AxesAt) = 2
    /\ Len(matrices) = 2
    /\ matrices[1] # matrices[2]
    /\ ImagesIn[2]["matrix"] = <<>>

\* The places of the tags in the list returned: << n, k >> is tag k of item n.
TagPlaces ==
    UNION { { << n, k >> : k \in DOMAIN res_items[n].tags } : n \in DOMAIN res_items }

TagAt(p) == res_items[p[1]].tags[p[2]]

\* The same tag is at two places, of one item or of two.
SomeTagTwice == \E p, q \in TagPlaces : p # q /\ TagAt(p) = TagAt(q)

RECURSIVE TagsBefore(_)
\* The number of tags of the items before item n.
TagsBefore(n) == IF n <= 1 THEN 0 ELSE TagsBefore(n - 1) + Len(res_items[n - 1].tags)

\* C16: get_check_tags ends with the Error on duplicates iff the same tag is
\* at two places of the list of build items, whatever the items and images
\* they belong to; otherwise it returns the tags of all the items, in the
\* order of the items and of their tags.
C16_DuplicateTagsIffError ==
    /\ (c_pc = "raised" /\ c_exc.what = "tags")
       => (c_exc.type = "Error" /\ SomeTagTwice)
    /\ c_pc = "checked"
       => /\ ~ SomeTagTwice
          /\ Len(tags_checked) = TagsBefore(Len(res_items) + 1)
          /\ \A p \in TagPlaces : tags_checked[TagsBefore(p[1]) + p[2]] = TagAt(p)

\* Two images have compiled to items whose own tags differ, one tag of the
\* first image is also a tag of the second, and get_check_tags has raised.
C16_Witness ==
    /\ c_pc = "raised"
    /\ c_exc = Exc("Error", <<>>, "tags")
    /\ Len(ImagesIn) = 2
    /\ \A n \in DOMAIN res_items : is_unique(res_items[n].tags)
    /\ \E n, m \in DOMAIN res_items :
           /\ res_items[n].context # res_items[m].context
           /\ Range(res_items[n].tags) \cap Range(res_items[m].tags) # {}

\* The value the assignment a gives to the axis key.
AxisValue(a, key) == a[CHOOSE k \in DOMAIN a : a[k][1] = key][2]

\* The image a build item was compiled from: the images of the model have
\* each their own context.
ImageOf(b) == CHOOSE img \in Range(ImagesIn) : img["build"]["context"] = b.context

\* What the conditions of the model say of an assignment; an entry without
\* condition is granted.
CondHolds(c, a) ==
    IF "if" \notin DOMAIN c THEN TRUE
    ELSE CASE c["if"].v = T_ifLatest -> AxisValue(a, s_base) = s_latest
           [] c["if"].v = T_if820 -> AxisValue(a, s_coq) = s_820
           [] c["if"].v = T_ifNotDev -> AxisValue(a, s_coq) # s_dev

\* The entries of a list whose condition holds, in the order of the list.
Granted(cands, a) == SelectSeq(cands, LAMBDA c : CondHolds(c, a))

\* The text a tag template expands to against an assignment.
TagText(template, a) == eval_bashlike(template, a, <<>>, None).val

\* C17: the tags of a build item are the expansions of the tag candidates
\* of its image whose condition holds for its assignment (a candidate
\* without condition counts as one whose condition holds), in the order the
\* candidates are declared.
C17_TagsOfGrantedCandidates ==
    \A n \in DOMAIN res_items :
        LET b == res_items[n]
            g == Granted(ImageOf(b)["build"]["tags"], b.matrix)
        IN  /\ Len(b.tags) = Len(g)
            /\ \A k \in DOMAIN g : b.tags[k] = TagText(g[k]["tag"], b.matrix)

\* The image of the axes base and coq has compiled to two items: that of
\* base = latest has the tag 'latest' after its own, the other has not.
C17_Witness ==
    /\ Len(res_items) >= 2
    /\ res_items[1].context = << "b" >>
    /\ res_items[2].context = << "b" >>
    /\ res_items[1].tags = << s_dev \o << "_" >> \o s_latest, s_latest >>
    /\ res_items[2].tags = << s_dev \o << "_" >> \o s_409 >>

\* sub is a part of text
Contains(text, sub) ==
    \E n \in 1..(Len(text) - Len(sub) + 1) : SubSeq(text, n, n + Len(sub) - 1) = sub

\* The template has a field of the defaults bundle.
RefersDefaults(template) == Contains(template, << "{" >> \o kw_defaults)

\* A tag candidate of the image refers to the defaults bundle.
DatedTag(img) ==
    \E k \in DOMAIN img["build"]["tags"] : RefersDefaults(img["build"]["tags"][k]["tag"])

\* The run has ended in the compilation of an image whose mapping is not
\* empty.
FailedInImage ==
    c_pc = "raised" /\ c_exc.what = "compile" /\ ImagesIn[image_i]["matrix"] # <<>>

\* C18 as stated: a tag template is expanded with the assignment and the
\* defaults bundle, as the build arguments are: an image with a tag template
\* that refers to a default does not fail for it, and the tag of each of its
\* items holds the build date of the item.
C18_TagsExpandDefaults ==
    /\ ~ (FailedInImage /\ DatedTag(ImagesIn[image_i]))
    /\ \A n \in DOMAIN res_items :
           DatedTag(ImageOf(res_items[n]))
           => \E k \in DOMAIN res_items[n].tags : Contains(res_items[n].tags[k], dates[n])

\* C18: a tag template is expanded with the assignment and without the
\* defaults bundle: the compilation of an image with a tag template that
\* refers to a default ends with a TypeError, so that no item comes from
\* such an image and no tag holds a build date; a build argument that refers
\* to the build date expands to the date read for its item.
C18_TagsExpandWithoutDefaults ==
    /\ FailedInImage => (c_exc.type = "TypeError" /\ DatedTag(ImagesIn[image_i]))
    /\ \A n \in 1..(image_i - 1) : ~ DatedTag(ImagesIn[n])
    /\ \A n \in DOMAIN res_items :
           /\ ~ DatedTag(ImageOf(res_items[n]))
           /\ \A k \in DOMAIN res_items[n].tags :
                  \A t \in 1..MaxTicks : ~ Contains(res_items[n].tags[k], DateText(t))
           /\ "args" \in DOMAIN ImageOf(res_items[n])["build"]
              => \A k \in DOMAIN ImageOf(res_items[n])["build"]["args"] :
                     ImageOf(res_items[n])["build"]["args"][k][2] = T_date
                     => res_items[n].args[k][2] = dates[n]

\* The first image has compiled to items whose argument holds the build
\* date, and the run has ended with a TypeError in the second, whose tag
\* template refers to the build date.
C18_Witness ==
    /\ FailedInImage
    /\ c_exc.type = "TypeError"
    /\ image_i = 2
    /\ DatedTag(ImagesIn[2])
    /\ Len(res_items) = 2
    /\ res_items[2].args = << << << "D" >>, dates[2] >> >>
    /\ dates[1] # dates[2]

\* The script entries an image declares: after_deploy as a list.
ScriptEntries(img) ==
    IF "after_deploy" \notin DOMAIN img["build"] THEN <<>>
    ELSE IF img["build"]["after_deploy"].t = "str" THEN << img["build"]["after_deploy"] >>
    ELSE img["build"]["after_deploy"].v

\* The entries that yield a line for the assignment a: the plain strings
\* and the entries with 'run' whose condition holds.
Emitted(img, a) ==
    SelectSeq(ScriptEntries(img), LAMBDA e : e.t = "str" \/ CondHolds(e.v, a))

\* The text an entry is declared with.
Declared(e) == IF e.t = "str" THEN e.v ELSE e.v["run"]

\* The export table of an image.
ExportTable(img) ==
    IF "after_deploy_export" \in DOMAIN img["build"]
    THEN img["build"]["after_deploy_export"] ELSE <<>>

\* What the value templates of the model stand for, for item n.
ValueOf(template, n) ==
    CASE template = T_coq -> AxisValue(res_items[n].matrix, s_coq)
      [] template = T_date -> dates[n]

\* export NAME='value'
ExportText(name, value) ==
    << "e", "x", "p", "o", "r", "t", " " >> \o name \o << "=", "'" >> \o value \o << "'" >>

\* One export line per entry of the export table of the image of item n.
ExportsOf(n) ==
    [k \in DOMAIN ExportTable(ImageOf(res_items[n])) |->
        ExportText(ExportTable(ImageOf(res_items[n]))[k][1],
                   ValueOf(ExportTable(ImageOf(res_items[n]))[k][2], n))]

\* The lines of the script entries of the image of item n, as declared.
LinesOf(n) ==
    [k \in DOMAIN Emitted(ImageOf(res_items[n]), res_items[n].matrix) |->
        Declared(Emitted(ImageOf(res_items[n]), res_items[n].matrix)[k])]

\* C19 as stated: the script of a build item is one export line per entry
\* of the export table of its image, in order, then the script lines of the
\* image, whether the image declares a script line or not.
C19_ExportsThenLines ==
    \A n \in DOMAIN res_items :
        res_items[n].after_deploy_script = ExportsOf(n) \o LinesOf(n)

\* C19: the script of a build item whose image declares a script entry is
\* one export line per entry of the export table, in order, then the script
\* lines; the script of an item whose image declares none is empty, export
\* table or not.
C19_ExportsOnlyWithLines ==
    \A n \in DOMAIN res_items :
        res_items[n].after_deploy_script =
            IF ScriptEntries(ImageOf(res_items[n])) = <<>> THEN <<>>
            ELSE ExportsOf(n) \o LinesOf(n)

\* An image with an export table and script entries has compiled to an item
\* whose script begins with the two export lines, that of the build date
\* included, and an image with an export table alone to an item whose
\* script is empty.
C19_Witness ==
    /\ Len(res_items) = 3
    /\ res_items[1].context = << "r" >>
    /\ Len(res_items[1].after_deploy_script) = 4
    /\ res_items[1].after_deploy_script[1] = ExportText(<< "V" >>, s_dev)
    /\ res_items[1].after_deploy_script[2] = ExportText(<< "D" >>, dates[1])
    /\ res_items[3].context = << "x" >>
    /\ ExportTable(ImageOf(res_items[3])) # <<>>
    /\ res_items[3].after_deploy_script = <<>>

\* The last lines of the script of item n, as many as the script entries of
\* its image that yield a line.
ScriptTail(n) ==
    SubSeq(res_items[n].after_deploy_script,
           Len(res_items[n].after_deploy_script) - Len(LinesOf(n)) + 1,
           Len(res_items[n].after_deploy_script))

\* The text of an entry for item n when 'run' is expanded as a tag is.
Expanded(n, e) ==
    IF e.t = "str" THEN e.v ELSE TagText(e.v["run"], res_items[n].matrix)

\* The lines of the script entries of the image of item n, 'run' expanded.
LinesExpanded(n) ==
    [k \in DOMAIN Emitted(ImageOf(res_items[n]), res_items[n].matrix) |->
        Expanded(n, Emitted(ImageOf(res_items[n]), res_items[n].matrix)[k])]

\* C20 as stated: an entry with 'run' yields a line iff its condition
\* holds for the assignment of the item, and the line is the expansion of
\* its text against the assignment; a plain string yields itself.
C20_RunEntriesExpanded ==
    \A n \in DOMAIN res_items :
        /\ Len(res_items[n].after_deploy_script) >= Len(LinesOf(n))
        /\ ScriptTail(n) = LinesExpanded(n)

\* C20: an entry with 'run' yields a line iff its condition holds for the
\* assignment of the item, and the line is its text as declared, without
\* expansion; a plain string yields itself.
C20_RunEntriesVerbatim ==
    \A n \in DOMAIN res_items :
        /\ Len(res_items[n].after_deploy_script) >= Len(LinesOf(n))
        /\ ScriptTail(n) = LinesOf(n)

\* An image with the entries 'a {matrix[coq]}', 'r {matrix[coq]}' under the
\* condition that coq is not dev, and 'z', has compiled to an item for dev
\* without the second line and an item for 8.19 with it, braces included.
C20_Witness ==
    /\ Len(res_items) >= 2
    /\ res_items[1].context = << "r" >>
    /\ res_items[2].context = << "r" >>
    /\ AxisValue(res_items[1].matrix, s_coq) = s_dev
    /\ SubSeq(res_items[1].after_deploy_script, 3, 4)
           = << << "a", " " >> \o T_coq, << "z" >> >>
    /\ SubSeq(res_items[2].after_deploy_script, 3, 5)
           = << << "a", " " >> \o T_coq, << "r", " " >> \o T_coq, << "z" >> >>

\* A call of eval_if that has ended, and its arguments.
IfDone == f_pc \in { "returned", "raised" } /\ "raw_condition" \in DOMAIN f_args

\* The operand without its double quotes.
Unquoted(a) == SelectSeq(a, LAMBDA c : c # "\"")

\* What an operand of the model expands to against the assignment m: the two
\* templates read the axis coq and the global var coq_dev, a text is itself.
Reads(t, m) ==
    IF t = T_coq THEN AxisValue(m, s_coq)
    ELSE IF t = T_vars THEN s_dev
    ELSE t

\* 'A == B' says that the two operands, without quotes, expand to the same.
SameText(a, b, m) == Reads(Unquoted(a), m) = Reads(Unquoted(b), m)

\* What the listed conditions of the model say of the assignment m.
Truth(e, m) ==
    CASE e = None -> TRUE
      [] e = Str(T_ifNotDev) -> AxisValue(m, s_coq) # s_dev
      [] e = Str(T_if820) -> AxisValue(m, s_coq) = s_820
      [] e = Str(Written(T_coq, s_eq, T_vars, <<>>)) -> AxisValue(m, s_coq) = s_dev
      [] OTHER -> FALSE

\* The listed conditions that are no condition: no operator, or three operands.
Unreadable(e) == e \in { Str(s_dev), Str(Chained(s_dev, s_eq, s_dev, s_eq, s_dev)) }

\* The places of a list where the conjunction stops.
Stops(l, m) == { k \in DOMAIN l : Unreadable(l[k]) \/ ~ Truth(l[k], m) }

\* The conjunction of a list, its elements taken in order: true when no
\* element stops it, false when the first that stops it is a false condition.
ListAnswer(l, m) ==
    IF Stops(l, m) = {} THEN f_ret = Ok(TRUE)
    ELSE IF Unreadable(l[Least(Stops(l, m))]) THEN f_ret.err = "Error"
    ELSE f_ret = Ok(FALSE)

\* C21: eval_if returns true for None; for a list, the conjunction of its
\* elements evaluated in order (true for the empty list); for 'A == B', true
\* iff the operands, without the whitespace around them and without their
\* double quotes, expand to equal strings; for 'A != B', the negation of
\* what 'A == B' returns on the same operands.
C21_EvalIfAnswers ==
    IfDone =>
        /\ f_args.raw_condition = None => f_ret = Ok(TRUE)
        /\ f_args.raw_condition.t = "list" =>
               ListAnswer(f_args.raw_condition.v, f_args.matrix)
        /\ \A a, b \in Operands, pad \in Pads :
               /\ f_args.raw_condition = Str(Written(a, s_eq, b, pad))
                      => f_ret = Ok(SameText(a, b, f_args.matrix))
               /\ f_args.raw_condition = Str(Written(a, s_neq, b, pad))
                      => /\ f_ret = Ok(~ SameText(a, b, f_args.matrix))
                         /\ f_ret.val = ~ eval_if(Str(Written(a, s_eq, b, pad)),
                                                  f_args.matrix, f_args.gvars).val

\* A quoted template and a text around '!=', with whitespace, have been
\* compared for the axis value 8.19: the call has returned true.
C21_Witness ==
    /\ f_pc = "returned"
    /\ f_args.raw_condition = Str(Written(Quoted(T_coq), s_neq, s_dev, << " " >>))
    /\ AxisValue(f_args.matrix, s_coq) = s_819
    /\ f_ret = Ok(TRUE)

\* The call has been given the string c as its condition.
GivenString(c) == f_args.raw_condition.t = "str" /\ f_args.raw_condition.v = c

\* The conditions 'A op1 B op2 C' a call has been given, if it is one.
ChainOf(c) ==
    { q \in ChainOperands \X Operators \X ChainOperands \X Operators \X ChainOperands :
          c.t = "str" /\ c.v = Chained(q[1], q[2], q[3], q[4], q[5]) }

\* C22 as stated: eval_if fails with an Error for every condition string
\* without '==' and '!=', and for every string with more than one operator
\* occurrence, those with both '==' and '!=' included.
C22_TwoOperatorsFail ==
    IfDone =>
        /\ \A c \in Unsupported :
               GivenString(c) => f_pc = "raised" /\ f_ret.err = "Error"
        /\ ChainOf(f_args.raw_condition) # {}
               => f_pc = "raised" /\ f_ret.err = "Error"

\* C22, amended: eval_if fails with an Error for every condition string
\* without '==' and '!=', and for every string whose split does not yield two
\* operands: '==' twice, or no '==' and '!=' twice.  A string with '==' once
\* is split on it and compared, the '!=' it contains being part of an
\* operand: the two sides are then different texts, and the answer is false.
C22_SplitOnEqualityFirst ==
    IfDone =>
        /\ \A c \in Unsupported :
               GivenString(c) => f_pc = "raised" /\ f_ret.err = "Error"
        /\ \A q \in ChainOf(f_args.raw_condition) :
               IF q[2] = q[4] THEN f_pc = "raised" /\ f_ret.err = "Error"
               ELSE f_pc = "returned" /\ f_ret = Ok(FALSE)

\* 'dev == dev == dev' has raised an Error.
C22_Witness ==
    /\ f_pc = "raised"
    /\ GivenString(Chained(s_dev, s_eq, s_dev, s_eq, s_dev))
    /\ f_ret.err = "Error"

\* A call of format that has ended, and the text it was given as s.
FormatDone == f_pc \in { "returned", "raised" } /\ "template" \in DOMAIN f_args

TextGiven == f_args.kwargs[<< "s" >>].v

RECURSIVE GlobMatches(_, _)
\* The text t matches the glob g: '*' is any run of characters, '?' is one
\* character, any other character is itself.
GlobMatches(g, t) ==
    IF g = <<>> THEN t = <<>>
    ELSE IF g[1] = "*"
    THEN \E k \in 0..Len(t) : GlobMatches(Tail(g), SubSeq(t, k + 1, Len(t)))
    ELSE t # <<>> /\ (g[1] = "?" \/ g[1] = t[1]) /\ GlobMatches(Tail(g), Tail(t))

\* The lengths of the suffixes of t that match g.
SuffixLens(g, t) ==
    { n \in 0..Len(t) : GlobMatches(g, SubSeq(t, Len(t) - n + 1, Len(t))) }

Greatest(S) == CHOOSE x \in S : \A y \in S : y <= x

WithoutShortest(g, t) ==
    IF SuffixLens(g, t) = {} THEN t ELSE SubSeq(t, 1, Len(t) - Least(SuffixLens(g, t)))

WithoutLongest(g, t) ==
    IF SuffixLens(g, t) = {} THEN t ELSE SubSeq(t, 1, Len(t) - Greatest(SuffixLens(g, t)))

IsPrefix(a, b) == Len(a) <= Len(b) /\ a = SubSeq(b, 1, Len(a))

\* C23: for every text s and glob p, '{s[%p]}' is s without the shortest of
\* its suffixes that match p, and s itself when none does.  A step written
\* '%%...' is the modifier '%%': the p of '%' does not begin with '%'.
C23_ShortestSuffixStripped ==
    FormatDone =>
        \A g \in Globs :
            (g[1] # "%" /\ f_args.template = T_step(<< "%" >> \o g))
                => f_ret = Ok(WithoutShortest(g, TextGiven))

\* '.a.' has lost its last character to '%.*': the shortest suffix that
\* matches is '.', the longest is the whole text.
C23_Witness ==
    /\ FormatDone
    /\ f_pc = "returned"
    /\ f_args.template = T_step(<< "%", ".", "*" >>)
    /\ TextGiven = << ".", "a", "." >>
    /\ f_ret.val = << ".", "a" >>

\* C24: for every text s and glob p, '{s[%%p]}' is s without the longest of
\* its suffixes that match p, and s itself when none does; it is a prefix of
\* what '{s[%p]}' gives for the same s.
C24_LongestSuffixStripped ==
    FormatDone =>
        \A g \in Globs :
            f_args.template = T_step(<< "%", "%" >> \o g)
                => /\ f_ret = Ok(WithoutLongest(g, TextGiven))
                   /\ g[1] # "%" =>
                          IsPrefix(f_ret.val,
                                   Format(T_step(<< "%" >> \o g), f_args.kwargs).val)

\* '.a.' has lost everything to '%%.*', where '%.*' takes one character.
C24_Witness ==
    /\ FormatDone
    /\ f_pc = "returned"
    /\ f_args.template = T_step(<< "%", "%", ".", "*" >>)
    /\ TextGiven = << ".", "a", "." >>
    /\ f_ret.val = <<>>
    /\ Format(T_step(<< "%", ".", "*" >>), f_args.kwargs).val = << ".", "a" >>

\* C25: a template whose last access step reads a name that begins with
\* '_', as an attribute ('.name') or as a mapping key ('[name]'), expands to
\* the empty string whatever the value read, and raises no lookup error.
C25_PrivateNamesRedacted ==
    (FormatDone /\ f_args.template \in PrivateTemplates) => f_ret = Ok(<<>>)

\* The five mode keywords.
ModeKeywords == { "nil", "minimal", "nightly", "rebuild-keyword", "rebuild-all" }

\* Some rule of the target of the call has a mode that is no mode keyword.
SomeInvalidMode ==
    \E n \in 1..Len(RulesOf(1)) : RulesOf(1)[n]["mode"] \notin ModeKeywords

\* An automatic resolution of a table of one target has ended.
AutoEnded == pc \in { "returned", "raised" } /\ manual_in = EmptyDict /\ Len(prop_in) = 1

\* C28, as claimed: a rule with an invalid mode keyword makes automatic
\* resolution fail with an Error, whether or not the rule is the one selected
\* for its target.
C28_InvalidModeAlwaysFails ==
    (AutoEnded /\ SomeInvalidMode) => (pc = "raised" /\ exc.type = "Error")

\* C28, amended: automatic resolution fails with an Error for the invalid
\* mode keyword of the rule selected for its target, the first whose test
\* holds; an invalid mode keyword on a rule that is not selected is not
\* looked at, and the resolution returns as the selected rule says.
C28_InvalidModeOfSelectedRuleFails ==
    (AutoEnded /\ ~ Malformed(RulesOf(1))) =>
        IF /\ FirstHit(RulesOf(1)) # 0
           /\ RulesOf(1)[FirstHit(RulesOf(1))]["mode"] \notin ModeKeywords
        THEN pc = "raised" /\ exc.type = "Error"
        ELSE /\ pc = "returned"
             /\ FirstHit(RulesOf(1)) # 0
                => /\ Len(res_prop) = 1
                   /\ res_prop[1].d["strategy"]["mode"]
                          = RulesOf(1)[FirstHit(RulesOf(1))]["mode"]

\* A call has returned 'minimal' for a target whose first rule, a nightly
\* rule that has not matched, has the mode 'weekly'.
C28_Witness ==
    /\ AutoEnded
    /\ Len(RulesOf(1)) = 2
    /\ IsWhen(RulesOf(1)[1], "nightly")
    /\ RulesOf(1)[1]["mode"] = "weekly"
    /\ FirstHit(RulesOf(1)) = 2
    /\ pc = "returned"
    /\ res_prop[1].d["strategy"]["mode"] = "minimal"

\* The run has written its artifacts.
Written26 == main_pc = "done"

\* The targets automatic resolution gives an entry to, by their position in
\* the rule table: those whose first rule that holds has another mode than
\* 'nil'.
AutoTargets ==
    SelectSeq([i \in 1..Len(prop_in) |-> i],
              LAMBDA i : /\ FirstHit(RulesOf(i)) # 0
                         /\ RulesOf(i)[FirstHit(RulesOf(i))]["mode"] # "nil")

\* C26: a run whose --propagate occurrences include '()' writes the empty
\* propagation table, whatever the other occurrences and the rule table are;
\* a run without --propagate writes the table resolved from the rule table,
\* the mode of the first rule that holds for each target.
C26_DisabledTableEmpty ==
    Written26 =>
        /\ s_disable \in Range(argv.propagate) => generated.propagate = <<>>
        /\ argv.propagate = <<>> =>
               /\ manual_in = EmptyDict
               /\ Len(generated.propagate) = Len(AutoTargets)
               /\ \A j \in 1..Len(AutoTargets) :
                      /\ generated.propagate[j].slug = prop_in[AutoTargets[j]].slug
                      /\ generated.propagate[j].d["strategy"]["mode"]
                             = RulesOf(AutoTargets[j])[FirstHit(RulesOf(AutoTargets[j]))]["mode"]

\* A run with '()' and with an override for a target that the rule table
\* has not, which alone ends the resolver with an error, has written the
\* empty table over a rule table that resolves a target.
C26_Witness ==
    /\ Written26
    /\ s_disable \in Range(argv.propagate)
    /\ \E n \in 1..Len(argv.propagate) : argv.propagate[n][2] = "3"
    /\ generated.propagate = <<>>
    /\ \E i \in 1..Len(prop) :
           /\ "strategy" \in DOMAIN prop[i].d
           /\ \E n \in 1..Len(prop[i].d["strategy"]) :
                  "when" \notin DOMAIN prop[i].d["strategy"][n]
                  /\ prop[i].d["strategy"][n]["mode"] = "minimal"

\* C27: the chosen build items a run writes are items of the full compiled
\* list it writes.
C27_ChosenWithinAll ==
    main_pc = "done"
    => Range(generated.build_data_chosen) \subseteq Range(generated.build_data_all)

\* The run has compiled its items and fetched the published tags.
Selected29 == main_pc \in { "parse", "resolve", "call", "write", "done" }

\* The item has a tag that is not published.
Unpublished(b) == \E n \in 1..Len(b.tags) : b.tags[n] \notin Range(remote_tags)

\* C29: minimal_rebuild keeps, in their order, exactly the compiled items
\* that have a tag absent from the published tags; an item whose tags are
\* all published, an item without tag included, is not kept; and without
\* --rebuild-all every item it keeps is in the chosen list.
C29_MinimalKeepsUnpublished ==
    Selected29 =>
        /\ build_data_min = SelectSeq(build_data_all, Unpublished)
        /\ \A b \in Range(build_data_all) :
               (b.tags = <<>> \/ Range(b.tags) \subseteq Range(remote_tags))
               => b \notin Range(build_data_min)
        /\ ~ argv.rebuild_all => Range(build_data_min) \subseteq Range(build_data_tags)

\* A run without --rebuild-all has kept an item and dropped two: one whose
\* tags are published and the item without tag, which --rebuild-keyword has
\* chosen all the same.
C29_Witness ==
    /\ Selected29
    /\ ~ argv.rebuild_all
    /\ build_data_min # <<>>
    /\ \E b \in Range(build_data_all) :
           b.tags # <<>> /\ b \notin Range(build_data_min)
    /\ \E b \in Range(build_data_all) :
           b.tags = <<>> /\ b \notin Range(build_data_min) /\ b \in Range(build_data_tags)

\* The response is a page with names.
IsFull(r) == r.status_code = 200 /\ "results" \in DOMAIN r.json /\ r.json.results # <<>>

\* The response is an empty page, or is answered with 404.
IsLast(r) ==
    \/ r.status_code = 404
    \/ r.status_code = 200 /\ "results" \in DOMAIN r.json /\ r.json.results = <<>>

\* The response is a failed one, other than 404.
IsFailed(r) == r.status_code >= 400 /\ r.status_code # 404

RECURSIVE NamesOf(_)
\* The names of the pages rs, in page order.
NamesOf(rs) ==
    IF rs = <<>> THEN <<>>
    ELSE [n \in 1..Len(Head(rs).json.results) |-> Head(rs).json.results[n].name]
         \o NamesOf(Tail(rs))

\* The parameters of the request of page n, n < 10.
PageParams(n) ==
    << << << "p", "a", "g", "e" >>, << << "1", "2", "3", "4", "5", "6", "7", "8", "9" >>[n] >> >>,
       << << "p", "a", "g", "e", "_", "s", "i", "z", "e" >>, << "5", "0" >> >> >>

\* The call has ended.
PagesEnded == p_pc \in { "returned", "raised" }

\* The server has answered with something else than a page with names.
EndServed == p_pc = "got" /\ ~ IsFull(answers[Len(answers)])

\* The requests sent are those of pages 1, 2, 3, ... in this order, one
\* response each; no page is asked for after a response that is not a page
\* with names; a call that has returned was last answered an empty page or
\* 404 and returns the names of the pages before, in page order; a call
\* last answered another failed response has raised Error and returns
\* nothing.
PagesInOrder ==
    /\ Len(asked) = page /\ Len(answers) = page
    /\ \A n \in 1..page : asked[n] = PageParams(n)
    /\ \A n \in 1..(page - 1) : IsFull(answers[n])
    /\ p_pc = "get" /\ page > 0 => IsFull(answers[page])
    /\ p_pc = "returned" =>
           /\ IsLast(answers[page])
           /\ p_ret = Ok(NamesOf(SubSeq(answers, 1, page - 1)))
    /\ p_pc = "raised" =>
           /\ ~ IsFull(answers[page]) /\ ~ IsLast(answers[page])
           /\ p_ret.val = <<>>
           /\ IsFailed(answers[page]) => p_ret.err = "Error"
    /\ (PagesEnded /\ IsLast(answers[page])) => p_pc = "returned"

\* C30: get_list_paginated asks for the pages 1, 2, 3, ... in increasing
\* order and ends at the first page that is empty or answered with 404,
\* returning the names of the earlier pages in page order; any other failed
\* response ends it with an Error and no result; and once the server has
\* answered an empty page or a failure, the call ends.
C30_PagesUntilFirstEnd == [] PagesInOrder /\ (EndServed ~> PagesEnded)

\* A call has returned the names of two pages, in page order, at a third
\* page answered with 404.
C30_Witness ==
    /\ p_pc = "returned"
    /\ page = 3
    /\ answers[3].status_code = 404
    /\ p_ret = Ok(<< s_819, s_dev, s_dev >>)

====
